---- MODULE Spec2Model ----
(***************************************************************************)
(* The import pipeline of bga-stats: import_data (format detection, the    *)
(* four parsers, the four upsert routines) over a SQLAlchemy session on a  *)
(* SQLite store.                                                           *)
(*                                                                         *)
(* A payload is a record [sep, lines]: the field separator its lines use   *)
(* (TAB or SEMI) and its lines, each a sequence of fields.  Field tokens   *)
(* carry no surrounding blanks and hold neither separator; a line of the   *)
(* text with no character is the one-field line <<"">>.                    *)
(***************************************************************************)
EXTENDS Integers, Sequences, FiniteSets, TLC

TAB == "\t"
SEMI == ";"

\* Python's None, for the nullable string attributes (elo, rank).
NoneVal == "<None>"

Max(S) == CHOOSE x \in S : \A y \in S : y <= x
Min(S) == CHOOSE x \in S : \A y \in S : x <= y

Range(s) == { s[k] : k \in 1..Len(s) }

----------------------------------------------------------------------------
(* Text primitives.                                                        *)

\* The decimal strings the documents use, with the value int() gives them.
NumStr ==
  {"0", "1", "2", "3", "4", "5", "6", "7", "8", "9", "10", "11", "12", "13",
   "45", "50", "51", "95", "100", "101", "-1", "-3"}

IsInt(s) == s \in NumStr

ToInt(s) ==
  CASE s = "0" -> 0 [] s = "1" -> 1 [] s = "2" -> 2 [] s = "3" -> 3 [] s = "4" -> 4
    [] s = "10" -> 10 [] s = "11" -> 11 [] s = "12" -> 12 [] s = "13" -> 13
    [] s = "5" -> 5 [] s = "6" -> 6 [] s = "7" -> 7 [] s = "8" -> 8 [] s = "9" -> 9
    [] s = "45" -> 45 [] s = "50" -> 50 [] s = "51" -> 51 [] s = "95" -> 95
    [] s = "100" -> 100 [] s = "101" -> 101
    [] s = "-1" -> 0 - 1 [] s = "-3" -> 0 - 3

\* str(n), as the f-strings of the messages format an integer.
Str(n) == CHOOSE s \in NumStr : ToInt(s) = n

\* str.isdigit(): decimal digits only, so no sign.
IsDigit(s) == IsInt(s) /\ ToInt(s) >= 0

\* A strip that takes no line for blank.
IsBlankLineMut(sep, l) == FALSE

\* A line that str.strip() empties: TAB is white space, SEMI is not.
IsBlankLine(sep, l) ==
  IF sep = TAB THEN \A k \in 1..Len(l) : l[k] = "" ELSE l = <<"">>

RECURSIVE DropLeadingEmpty(_)
DropLeadingEmpty(l) ==
  IF l # <<>> /\ Head(l) = "" THEN DropLeadingEmpty(Tail(l)) ELSE l

RECURSIVE DropTrailingEmpty(_)
DropTrailingEmpty(l) ==
  IF l # <<>> /\ l[Len(l)] = "" THEN DropTrailingEmpty(SubSeq(l, 1, Len(l) - 1)) ELSE l

\* line.strip() followed by line.split(by) on a line of a text whose fields
\* are separated by sep: with TAB the strip removes the empty fields at both
\* ends of the line; split by the other character leaves the line one column.
Columns(sep, by, l) ==
  IF sep # by THEN <<"?">>
  ELSE IF sep = TAB THEN DropTrailingEmpty(DropLeadingEmpty(l))
  ELSE l

RECURSIVE DropLeadingBlank(_, _)
DropLeadingBlank(sep, ls) ==
  IF ls # <<>> /\ IsBlankLine(sep, Head(ls)) THEN DropLeadingBlank(sep, Tail(ls)) ELSE ls

RECURSIVE DropTrailingBlank(_, _)
DropTrailingBlank(sep, ls) ==
  IF ls # <<>> /\ IsBlankLine(sep, ls[Len(ls)])
    THEN DropTrailingBlank(sep, SubSeq(ls, 1, Len(ls) - 1))
    ELSE ls

\* raw_text.strip().split('\n'): the lines the parsers number from 1.
StrippedLines(p) == DropTrailingBlank(p.sep, DropLeadingBlank(p.sep, p.lines))

\* not raw_text or not raw_text.strip()
IsEmptyText(p) == StrippedLines(p) = <<>>

\* The text holds sep + s + sep: s is a field with a field on both sides.
HasInnerField(p, s) ==
  \E n \in 1..Len(p.lines) :
    \E k \in 2..(Len(p.lines[n]) - 1) : p.lines[n][k] = s

\* The text holds the separator character at all.
HasSeparator(p) == \E n \in 1..Len(p.lines) : Len(p.lines[n]) >= 2

----------------------------------------------------------------------------
(* Parsers.  Each returns [ok, err, line, msg, data]; err is the exception  *)
(* class raised, line the line number its message cites (0 for none) and   *)
(* msg the message after "Line n: ": its text, then the values it cites.   *)

Fail(kind, n, msg) == [ok |-> FALSE, err |-> kind, line |-> n, msg |-> msg, data |-> <<>>]
Ok(d) == [ok |-> TRUE, err |-> "", line |-> 0, msg |-> <<>>, data |-> d]

\* The first of the columns from..to that int() refuses.
FirstBad(columns, from, to) ==
  columns[CHOOSE k \in from..to :
            ~IsInt(columns[k]) /\ \A m \in from..(k - 1) : IsInt(columns[m])]

\* parse_game_list
RECURSIVE GameListRows(_, _, _, _)
GameListRows(sep, lines, n, games) ==
  IF n > Len(lines)
    THEN IF games = <<>> THEN Fail("ValidationError", 0, <<"No valid game data found">>)
         ELSE Ok(games)
  ELSE IF IsBlankLine(sep, lines[n]) THEN GameListRows(sep, lines, n + 1, games)
  ELSE LET columns == Columns(sep, TAB, lines[n]) IN
    IF Len(columns) # 5
      THEN Fail("ParseError", n, <<"Expected 5 columns, got {}", Str(Len(columns))>>)
    ELSE IF ~IsInt(columns[1])
      THEN Fail("ParseError", n, <<"BGA game ID must be numeric, got {}", columns[1]>>)
    ELSE IF columns[4] \notin {"alpha", "beta", "published"}
      THEN Fail("ParseError", n,
                <<"Status must be alpha, beta, or published, got {}", columns[4]>>)
    ELSE IF columns[5] \notin {"0", "1"}
      THEN Fail("ParseError", n, <<"Premium flag must be 0 or 1, got {}", columns[5]>>)
    ELSE GameListRows(sep, lines, n + 1,
           Append(games, [bga_game_id |-> ToInt(columns[1]),
                          name |-> columns[2],
                          display_name |-> columns[3],
                          status |-> columns[4],
                          premium |-> (columns[5] = "1")]))

parse_game_list(p) ==
  IF IsEmptyText(p) THEN Fail("ValidationError", 0, <<"Input text is empty">>)
  ELSE GameListRows(p.sep, StrippedLines(p), 1, <<>>)

\* The player dictionary a first row of a player id creates.
NewPlayerDict(name, id) ==
  [name |-> name, bga_player_id |-> id,
   has_xp |-> FALSE, xp |-> 0, karma |-> 0, matches_total |-> 0, wins_total |-> 0,
   has_recent |-> FALSE, abandoned |-> 0, timeout |-> 0, recent_matches |-> 0,
   last_seen_days |-> 0, game_stats |-> <<>>]

\* A dictionary that only finds the player of the row before.
PlayerIndexMut(players, id) ==
  IF players # <<>> /\ players[Len(players)].bga_player_id = id THEN Len(players) ELSE 0

\* Position of the player keyed id in the dictionary (insertion order), 0 if absent.
PlayerIndex(players, id) ==
  IF \E k \in 1..Len(players) : players[k].bga_player_id = id
    THEN CHOOSE k \in 1..Len(players) : players[k].bga_player_id = id
    ELSE 0

AllInt(columns, from, to) == \A k \in from..to : IsInt(columns[k])

\* _parse_xp_row
ParseXpRow(d, columns) ==
  [d EXCEPT !.has_xp = TRUE, !.xp = ToInt(columns[4]), !.karma = ToInt(columns[5]),
            !.matches_total = ToInt(columns[6]), !.wins_total = ToInt(columns[7])]

\* _parse_recent_games_row
ParseRecentGamesRow(d, columns) ==
  [d EXCEPT !.has_recent = TRUE, !.abandoned = ToInt(columns[4]),
            !.timeout = ToInt(columns[5]), !.recent_matches = ToInt(columns[6]),
            !.last_seen_days = ToInt(columns[7])]

\* _parse_game_row
ParseGameRow(d, columns) ==
  [d EXCEPT !.game_stats = Append(@,
     [game_name |-> columns[3],
      elo |-> IF columns[4] = "" THEN NoneVal ELSE columns[4],
      rank |-> IF columns[5] = "" THEN NoneVal ELSE columns[5],
      played |-> ToInt(columns[6]),
      won |-> ToInt(columns[7])])]

\* The row handlers raise ValueError (wrong column count, a field int() refuses,
\* an empty game name), which the caller turns into a ParseError.
RowRaises(columns) ==
  \/ Len(columns) # 7
  \/ /\ columns[3] \in {"XP", "Recent games"}
     /\ ~AllInt(columns, 4, 7)
  \/ /\ columns[3] \notin {"XP", "Recent games"}
     /\ (columns[3] = "" \/ ~AllInt(columns, 6, 7))

\* str(e) of the ValueError a row handler raises.
RowMessage(columns) ==
  LET kind == IF columns[3] \in {"XP", "Recent games"} THEN columns[3] ELSE "Game" IN
    IF Len(columns) # 7 THEN <<"{} row must have exactly 7 columns", kind>>
    ELSE IF kind # "Game"
      THEN <<"{} row has invalid numeric value: {}", kind, FirstBad(columns, 4, 7)>>
    ELSE IF columns[3] = "" THEN <<"Game name is empty">>
    ELSE <<"Game row has invalid played/won value: {}", FirstBad(columns, 6, 7)>>

\* The validation loop after the rows: the first player lacking a marker row.
MissingRow(players) ==
  \E k \in 1..Len(players) : ~players[k].has_xp \/ ~players[k].has_recent

\* The message of that loop: the player's name and id, and the row missing.
MissingMessage(players) ==
  LET k == CHOOSE k \in 1..Len(players) :
             /\ ~players[k].has_xp \/ ~players[k].has_recent
             /\ \A m \in 1..(k - 1) : players[m].has_xp /\ players[m].has_recent
  IN <<IF players[k].has_xp THEN "Player {} (ID: {}) missing Recent games row"
       ELSE "Player {} (ID: {}) missing XP row",
       players[k].name, Str(players[k].bga_player_id)>>

RECURSIVE PlayerStatsRows(_, _, _, _)
PlayerStatsRows(sep, lines, n, players) ==
  IF n > Len(lines)
    THEN IF MissingRow(players)
           THEN Fail("ValidationError", 0, MissingMessage(players))
           ELSE Ok(players)
  ELSE IF IsBlankLine(sep, lines[n]) THEN PlayerStatsRows(sep, lines, n + 1, players)
  ELSE LET columns == Columns(sep, TAB, lines[n]) IN
    IF Len(columns) < 7
      THEN Fail("ParseError", n, <<"Expected at least 7 columns, got {}", Str(Len(columns))>>)
    ELSE IF columns[1] = "" THEN Fail("ParseError", n, <<"Player name is empty">>)
    ELSE IF ~IsInt(columns[2])
      THEN Fail("ParseError", n, <<"Player ID must be numeric, got {}", columns[2]>>)
    ELSE IF RowRaises(columns) THEN Fail("ParseError", n, RowMessage(columns))
    ELSE
      LET id == ToInt(columns[2])
          known == PlayerIndex(players, id)
          ps == IF known = 0 THEN Append(players, NewPlayerDict(columns[1], id))
                ELSE players
          k == IF known = 0 THEN Len(ps) ELSE known
          d == IF columns[3] = "XP" THEN ParseXpRow(ps[k], columns)
               ELSE IF columns[3] = "Recent games" THEN ParseRecentGamesRow(ps[k], columns)
               ELSE ParseGameRow(ps[k], columns)
      IN PlayerStatsRows(sep, lines, n + 1, [ps EXCEPT ![k] = d])

parse_player_stats(p) ==
  IF IsEmptyText(p) THEN Fail("ValidationError", 0, <<"Input text is empty">>)
  ELSE PlayerStatsRows(p.sep, StrippedLines(p), 1, <<>>)

\* parse_move_stats; m is the match so far, have tells whether a row set its
\* table id and game name.
RECURSIVE MoveStatsRows(_, _, _, _, _)
MoveStatsRows(sep, lines, n, have, m) ==
  IF n > Len(lines)
    THEN IF m.moves = <<>> THEN Fail("ValidationError", 0, <<"No valid move data found">>)
         ELSE Ok(<<m>>)
  ELSE IF IsBlankLine(sep, lines[n]) THEN MoveStatsRows(sep, lines, n + 1, have, m)
  ELSE LET columns == Columns(sep, SEMI, lines[n]) IN
    IF Len(columns) # 7
      THEN Fail("ParseError", n, <<"Expected 7 columns, got {}", Str(Len(columns))>>)
    ELSE IF ~IsInt(columns[1])
      THEN Fail("ParseError", n, <<"Table ID must be numeric, got {}", columns[1]>>)
    ELSE IF have /\ m.table_id # ToInt(columns[1])
      THEN Fail("ParseError", n,
                <<"Mixed table IDs found ({} and {})", Str(m.table_id),
                  Str(ToInt(columns[1]))>>)
    ELSE IF have /\ m.game_name # columns[2]
      THEN Fail("ParseError", n,
                <<"Mixed game names found ({} and {})", m.game_name, columns[2]>>)
    ELSE IF columns[6] = "" THEN Fail("ParseError", n, <<"Player name is empty">>)
    ELSE MoveStatsRows(sep, lines, n + 1, TRUE,
           [table_id |-> ToInt(columns[1]),
            game_name |-> columns[2],
            moves |-> Append(m.moves,
              [move_no |-> columns[3], datetime_local |-> columns[4],
               datetime_excel |-> columns[5], player_name |-> columns[6],
               remaining_time |-> columns[7]])])

parse_move_stats(p) ==
  IF IsEmptyText(p) THEN Fail("ValidationError", 0, <<"Input text is empty">>)
  ELSE MoveStatsRows(p.sep, StrippedLines(p), 1, FALSE,
                     [table_id |-> 0, game_name |-> "", moves |-> <<>>])

\* Position of the tournament keyed id in the dictionary, 0 if absent.
TournamentIndex(ts, id) ==
  IF \E k \in 1..Len(ts) : ts[k].tournament_id = id
    THEN CHOOSE k \in 1..Len(ts) : ts[k].tournament_id = id
    ELSE 0

\* _parse_tournament_summary: the dictionary entry of an 11-column row.
TournamentSummary(columns) ==
  [tournament_id |-> ToInt(columns[1]), name |-> columns[2], game_name |-> columns[4],
   start_time |-> columns[5], end_time |-> columns[6],
   rounds |-> ToInt(columns[7]), round_limit |-> ToInt(columns[8]),
   total_matches |-> ToInt(columns[9]), timeout_matches |-> ToInt(columns[10]),
   player_count |-> ToInt(columns[11]), matches |-> <<>>]

\* The (name, time, points) triples of a match row, from column 5 on.
MatchPlayers(columns) ==
  [q \in 1..((Len(columns) - 4) \div 3) |->
     [name |-> columns[3 * q + 2],
      remaining_time_seconds |-> ToInt(columns[3 * q + 3]),
      points |-> ToInt(columns[3 * q + 4])]]

\* _parse_tournament_match raises for this row.
MatchRowRaises(columns) ==
  \/ ~IsInt(columns[2])
  \/ ~IsInt(columns[4])
  \/ (Len(columns) - 4) % 3 # 0
  \/ \E q \in 1..((Len(columns) - 4) \div 3) :
       ~IsInt(columns[3 * q + 3]) \/ ~IsInt(columns[3 * q + 4])

\* The message of the ParseError _parse_tournament_match raises.
MatchRowMessage(columns) ==
  IF ~IsInt(columns[2]) THEN <<"Failed to parse match row: {}", columns[2]>>
  ELSE IF ~IsInt(columns[4]) THEN <<"Failed to parse match row: {}", columns[4]>>
  ELSE IF (Len(columns) - 4) % 3 # 0 THEN <<"Player data columns must be multiple of 3">>
  ELSE <<"Failed to parse match row: {}",
         LET q == CHOOSE q \in 1..((Len(columns) - 4) \div 3) :
                    /\ ~IsInt(columns[3 * q + 3]) \/ ~IsInt(columns[3 * q + 4])
                    /\ \A r \in 1..(q - 1) :
                         IsInt(columns[3 * r + 3]) /\ IsInt(columns[3 * r + 4])
         IN FirstBad(columns, 3 * q + 3, 3 * q + 4)>>

\* _parse_tournament_match: the match a row appends to its tournament.
TournamentMatchOf(columns) ==
  [table_id |-> ToInt(columns[2]), is_timeout |-> (columns[3] = "1"),
   progress |-> ToInt(columns[4]), players |-> MatchPlayers(columns)]

\* A summary row that keeps the matches its tournament has.
DeclareMut(ts, k, columns) ==
  IF k = 0 THEN Append(ts, TournamentSummary(columns))
  ELSE [ts EXCEPT ![k] = [TournamentSummary(columns) EXCEPT !.matches = ts[k].matches]]

\* tournaments[tournament_id] = {...}: a summary row sets the entry of its id,
\* at the place of the dictionary the id has (k), or at its end (k = 0).
Declare(ts, k, columns) ==
  IF k = 0 THEN Append(ts, TournamentSummary(columns))
  ELSE [ts EXCEPT ![k] = TournamentSummary(columns)]

RECURSIVE TournamentRows(_, _, _, _)
TournamentRows(sep, lines, n, ts) ==
  IF n > Len(lines)
    THEN IF ts = <<>> THEN Fail("ValidationError", 0, <<"No valid tournament data found">>)
         ELSE Ok(ts)
  ELSE IF IsBlankLine(sep, lines[n]) THEN TournamentRows(sep, lines, n + 1, ts)
  ELSE LET columns == Columns(sep, TAB, lines[n]) IN
    IF Len(columns) < 4
      THEN Fail("ParseError", n, <<"Expected at least 4 columns, got {}", Str(Len(columns))>>)
    ELSE IF ~IsInt(columns[1])
      THEN Fail("ParseError", n, <<"Tournament ID must be numeric, got {}", columns[1]>>)
    ELSE LET k == TournamentIndex(ts, ToInt(columns[1])) IN
      IF Len(columns) = 11
        THEN IF ~AllInt(columns, 7, 11)
               THEN Fail("ParseError", n,
                         <<"Failed to parse tournament summary: {}",
                           FirstBad(columns, 7, 11)>>)
             ELSE TournamentRows(sep, lines, n + 1, Declare(ts, k, columns))
      ELSE IF k = 0
        THEN Fail("ParseError", n, <<"Match row found before tournament summary">>)
      ELSE IF MatchRowRaises(columns) THEN Fail("ParseError", n, MatchRowMessage(columns))
      ELSE TournamentRows(sep, lines, n + 1,
             [ts EXCEPT ![k].matches = Append(@, TournamentMatchOf(columns))])

parse_tournament_stats(p) ==
  IF IsEmptyText(p) THEN Fail("ValidationError", 0, <<"Input text is empty">>)
  ELSE TournamentRows(p.sep, StrippedLines(p), 1, <<>>)

----------------------------------------------------------------------------
(* Format detection.                                                       *)

\* The lines of raw_text.split('\n') with at least 10 TABs whose third field
\* is "0" or "1" (rule 3 of the detector reads the lines unstripped).
HasTimeoutFlagRow(p) ==
  /\ p.sep = TAB
  /\ \E n \in 1..Len(p.lines) :
       Len(p.lines[n]) - 1 >= 10 /\ p.lines[n][3] \in {"0", "1"}

\* The first line of raw_text.strip().split('\n'), split at TAB: the strip of
\* the text removes the empty fields that start its first line.
FirstLine(p) ==
  LET ls == StrippedLines(p) IN
    IF p.sep # TAB THEN <<"?">>
    ELSE IF Len(ls) = 1 THEN Columns(TAB, TAB, ls[1])
    ELSE DropLeadingEmpty(ls[1])

\* A detector that tries the game-list rule before the tournament rule.
detect_import_typeMut(p) ==
  IF IsEmptyText(p) THEN "unknown"
  ELSE IF p.sep = TAB /\ HasInnerField(p, "XP") /\ HasInnerField(p, "Recent games")
    THEN "player_stats"
  ELSE IF p.sep = SEMI /\ HasSeparator(p) THEN "move_stats"
  ELSE LET first_line == FirstLine(p) IN
    IF Len(first_line) = 5 /\ IsDigit(first_line[1]) /\ first_line[5] \in {"0", "1"}
      THEN "game_list"
    ELSE IF p.sep = TAB /\ HasInnerField(p, "") /\ HasTimeoutFlagRow(p)
      THEN "tournament_stats"
      ELSE "unknown"

\* Lines 20-52.
detect_import_type(p) ==
  IF IsEmptyText(p) THEN "unknown"
  ELSE IF p.sep = TAB /\ HasInnerField(p, "XP") /\ HasInnerField(p, "Recent games")
    THEN "player_stats"
  ELSE IF p.sep = SEMI /\ HasSeparator(p) THEN "move_stats"
  ELSE IF p.sep = TAB /\ HasInnerField(p, "") /\ HasTimeoutFlagRow(p)
    THEN "tournament_stats"
  ELSE LET first_line == FirstLine(p) IN
    IF Len(first_line) = 5 /\ IsDigit(first_line[1]) /\ first_line[5] \in {"0", "1"}
      THEN "game_list"
      ELSE "unknown"

----------------------------------------------------------------------------
(* The store: one set of rows per table of models.py.  Every row has the   *)
(* surrogate key id; the timestamp columns are left out.                   *)

EmptyStore ==
  [players |-> {}, games |-> {}, stats |-> {}, matches |-> {}, moves |-> {},
   tournaments |-> {}, tmatches |-> {}, tmplayers |-> {}]

\* The key SQLite gives an inserted row of an INTEGER PRIMARY KEY table created
\* without AUTOINCREMENT: one more than the largest key in the table.
NextRowId(rows) == IF rows = {} THEN 1 ELSE Max({ r.id : r \in rows }) + 1

\* The unique constraints with the one on games.bga_game_id left out.
UniqueViolationMut(store, table, row) ==
  CASE table = "players" -> \E r \in store.players : r.bga_player_id = row.bga_player_id
    [] table = "games" -> FALSE
    [] table = "stats" ->
         \E r \in store.stats : r.player_id = row.player_id /\ r.game_id = row.game_id
    [] table = "matches" -> \E r \in store.matches : r.bga_table_id = row.bga_table_id
    [] table = "tournaments" ->
         \E r \in store.tournaments : r.bga_tournament_id = row.bga_tournament_id
    [] OTHER -> FALSE

\* A row of the table already holds the unique key of row (the unique=True
\* columns and the UniqueConstraint of models.py).
UniqueViolation(store, table, row) ==
  CASE table = "players" -> \E r \in store.players : r.bga_player_id = row.bga_player_id
    [] table = "games" -> \E r \in store.games : r.bga_game_id = row.bga_game_id
    [] table = "stats" ->
         \E r \in store.stats : r.player_id = row.player_id /\ r.game_id = row.game_id
    [] table = "matches" -> \E r \in store.matches : r.bga_table_id = row.bga_table_id
    [] table = "tournaments" ->
         \E r \in store.tournaments : r.bga_tournament_id = row.bga_tournament_id
    [] OTHER -> FALSE

\* The session's unit of work: session.add(obj) and attribute assignments on a
\* loaded object queue an operation that the next flush sends to the store.
\* An update keeps the row as the session loaded it (old) beside the row as
\* the assignments leave it.
InsertOp(table, row) == [kind |-> "insert", table |-> table, row |-> row]
UpdateOp(table, old, row) ==
  [kind |-> "update", table |-> table, old |-> old, row |-> row]

\* A later operation of the queue is on the object of update o: the
\* assignments are on one object, whose last state the flush writes.
Superseded(o, later) ==
  \E k \in 1..Len(later) :
    /\ later[k].kind = "update" /\ later[k].table = o.table
    /\ later[k].row.id = o.row.id

\* The UPDATE of the flush sets the columns whose value differs from the one
\* the session loaded; the other columns of the stored row r stay.
Written(r, o) ==
  [c \in DOMAIN r |-> IF o.row[c] # o.old[c] THEN o.row[c] ELSE r[c]]

\* session.flush(): the queued operations in order; [ok, store].  An INSERT
\* that breaks a unique constraint raises IntegrityError.
RECURSIVE Flush(_, _)
Flush(store, ops) ==
  IF ops = <<>> THEN [ok |-> TRUE, store |-> store]
  ELSE LET o == Head(ops) IN
    IF o.kind = "insert"
      THEN IF UniqueViolation(store, o.table, o.row)
             THEN [ok |-> FALSE, store |-> store]
             ELSE Flush([store EXCEPT ![o.table] =
                           @ \cup {[o.row EXCEPT !.id = NextRowId(store[o.table])]}],
                        Tail(ops))
      ELSE IF Superseded(o, Tail(ops)) THEN Flush(store, Tail(ops))
      ELSE Flush([store EXCEPT ![o.table] =
                    { IF r.id = o.row.id THEN Written(r, o) ELSE r : r \in @ }],
                 Tail(ops))

\* An import_move_stats that keeps the old moves.
DeleteMovesMut(store, match_id) == store

\* Query(...).filter_by(...).delete(): one DELETE statement, sent at once.  It
\* removes the rows of that table only: the engine of db.py does not switch
\* SQLite's foreign keys on, so ON DELETE CASCADE does not run, and a bulk
\* delete does not apply the relationships' ORM cascade.
DeleteMoves(store, match_id) ==
  [store EXCEPT !.moves = { r \in @ : r.match_id # match_id }]

DeleteTournamentMatches(store, tournament_id) ==
  [store EXCEPT !.tmatches = { r \in @ : r.tournament_id # tournament_id }]

\* Query(...).first() with no ORDER BY: SQLite scans the table in key order.
First(rows) == CHOOSE r \in rows : \A q \in rows : r.id <= q.id

----------------------------------------------------------------------------
(* Payloads.                                                               *)

Tab(lines) == [sep |-> TAB, lines |-> lines]
Semi(lines) == [sep |-> SEMI, lines |-> lines]

\* The empty text.
DocEmpty == Tab(<< <<"">> >>)

\* A text of no format.
DocText == Tab(<< <<"random text">> >>)

\* Player stats: one player, one game (the round-trip example of the tests).
DocPS1 ==
  Tab(<< <<"Ann", "7", "XP", "9", "95", "5", "3">>,
         <<"Ann", "7", "Recent games", "2", "1", "45", "3">>,
         <<"Ann", "7", "Chess", "1500", "42", "3", "1">> >>)

\* The same player with new values, a blank line and a second game.
DocPS2 ==
  Tab(<< <<"Ann", "7", "XP", "8", "100", "6", "5">>,
         <<"Ann", "7", "Recent games", "1", "0", "50", "2">>,
         <<"">>,
         <<"Ann", "7", "Chess", "1600", "9", "5", "3">>,
         <<"Ann", "7", "Go", "N/A", "", "2", "1">> >>)

\* Two players, their rows interleaved, two games.
DocPS3 ==
  Tab(<< <<"Bob", "8", "XP", "5", "50", "3", "1">>,
         <<"Ann", "7", "XP", "9", "95", "5", "3">>,
         <<"Bob", "8", "Go", "1400", "", "2", "1">>,
         <<"Ann", "7", "Recent games", "2", "1", "45", "3">>,
         <<"Bob", "8", "Recent games", "0", "0", "3", "1">>,
         <<"Ann", "7", "Shogi", "N/A", "5", "1", "0">>,
         <<"Bob", "8", "Chess", "1500", "7", "1", "1">> >>)

\* One player with two rows for the same game.
DocPSDup ==
  Tab(<< <<"Bob", "8", "XP", "5", "50", "3", "1">>,
         <<"Bob", "8", "Recent games", "0", "0", "3", "1">>,
         <<"Bob", "8", "Chess", "1500", "7", "1", "1">>,
         <<"Bob", "8", "Chess", "1600", "6", "2", "1">> >>)

\* A player without XP row; a row of three columns.
DocPSNoXp == Tab(<< <<"Ann", "7", "Recent games", "2", "1", "45", "3">> >>)
DocPSShort == Tab(<< <<"Ann", "7", "XP">> >>)

\* Game lists.
DocGL1 ==
  Tab(<< <<"5", "Chess", "Chess", "published", "0">>,
         <<"6", "go", "Go", "beta", "1">> >>)
DocGL2 == Tab(<< <<"5", "chess", "Chess!", "alpha", "1">> >>)
DocGLDup ==
  Tab(<< <<"9", "Shogi", "Shogi", "beta", "0">>,
         <<"9", "shogi", "Shogi", "published", "1">> >>)
DocGLNeg == Tab(<< <<"-3", "Go", "Go", "published", "0">> >>)
DocGLBad == Tab(<< <<"5", "Chess", "Chess", "published">> >>)

\* Move timelines of table 50 (three moves, then two of them) and table 51.
DocMS3 ==
  Semi(<< <<"50", "Chess", "1", "d1", "e1", "Ann", "5">>,
          <<"50", "Chess", "null", "d2", "e2", "Bob", "">>,
          <<"50", "Chess", "null", "d3", "e3", "Ann", "3">> >>)
DocMS2 ==
  Semi(<< <<"50", "Chess", "null", "d3", "e3", "Ann", "3">>,
          <<"50", "Chess", "1", "d1", "e1", "Ann", "5">> >>)
DocMSb == Semi(<< <<"51", "Go", "1", "d1", "e1", "Bob", "9">> >>)
DocMSMixed ==
  Semi(<< <<"50", "Chess", "1", "d1", "e1", "Ann", "5">>,
          <<"51", "Chess", "2", "d2", "e2", "Bob", "3">> >>)

\* Tournaments: 100 with two matches (two and three players), 100 again with
\* one other match, 101 with one match, and a match row with no summary.
DocTS1 ==
  Tab(<< <<"100", "Cup", "", "Chess", "d1", "d2", "2", "1", "2", "0", "3">>,
         <<"100", "1", "0", "100", "Ann", "5", "1", "Bob", "-1", "0">>,
         <<"100", "2", "1", "50", "Ann", "3", "1", "Bob", "2", "0", "Cy", "1", "0">> >>)
DocTS2 ==
  Tab(<< <<"100", "Cup 2", "", "Chess", "d1", "d3", "3", "1", "1", "0", "2">>,
         <<"100", "3", "0", "100", "Bob", "5", "1", "Cy", "3", "0">> >>)
DocTS3 ==
  Tab(<< <<"101", "Open", "", "Go", "d1", "d2", "1", "1", "1", "0", "2">>,
         <<"101", "7", "1", "100", "Ann", "-1", "0", "Cy", "9", "1">> >>)
DocTSBad == Tab(<< <<"100", "1", "0", "100", "Ann", "5", "1", "Bob", "-1", "0">> >>)

Docs ==
  {DocEmpty, DocText,
   DocPS1, DocPS2, DocPS3, DocPSDup, DocPSNoXp, DocPSShort,
   DocGL1, DocGL2, DocGLDup, DocGLNeg, DocGLBad,
   DocMS3, DocMS2, DocMSb, DocMSMixed,
   DocTS1, DocTS2, DocTS3, DocTSBad}

\* Texts for the detector.  A text of white space only (a TAB, a newline).
DocBlank == Tab(<< <<"", "">>, <<"">> >>)

\* A five-column row with both player-stats markers (rules 1 and 4).
DocMarkers5 == Tab(<< <<"5", "XP", "Recent games", "published", "0">> >>)

\* A tournament match row of three players after the two marker rows of a
\* player (rules 1 and 3).
DocMarkersMatch ==
  Tab(<< <<"Ann", "7", "XP", "9", "95", "5", "3">>,
         <<"Ann", "7", "Recent games", "2", "1", "45", "3">>,
         <<"100", "2", "1", "", "Ann", "3", "1", "Bob", "2", "0", "Cy", "1", "0">> >>)

\* A game-list row, then a row of eleven fields with an empty one and the
\* flag "0" in third place (rules 3 and 4).
DocGameThenMatch ==
  Tab(<< <<"5", "Chess", "Chess", "published", "0">>,
         <<"100", "1", "0", "", "Ann", "5", "1", "Bob", "-1", "0", "x">> >>)

\* A game list after an empty line; a game-list row after a line of text.
DocGLLead ==
  Tab(<< <<"">>, <<"5", "Chess", "Chess", "published", "0">> >>)
DocGLSecond ==
  Tab(<< <<"random text">>, <<"5", "Chess", "Chess", "published", "0">> >>)

\* A match row of two players (ten fields) with an empty field, alone.
DocMatch10 == Tab(<< <<"100", "1", "0", "", "Ann", "5", "1", "Bob", "-1", "0">> >>)

\* One word; semicolon fields that are no move row.
DocWord == Semi(<< <<"random text">> >>)
DocSemi == Semi(<< <<"a", "b">> >>)

DetectorDocs ==
  {DocBlank, DocMarkers5, DocMarkersMatch, DocGameThenMatch, DocGLLead,
   DocGLSecond, DocMatch10, DocWord, DocSemi}

\* Documents with lines of no text: an empty line before, between and after
\* the rows, and a line of TABs only.
DocGLBlank ==
  Tab(<< <<"">>,
         <<"5", "Chess", "Chess", "published", "0">>,
         <<"", "">>,
         <<"6", "go", "Go", "beta", "1">>,
         <<"">> >>)
DocMSBlank ==
  Semi(<< <<"">>,
          <<"50", "Chess", "1", "d1", "e1", "Ann", "5">>,
          <<"">>,
          <<"50", "Chess", "2", "d2", "e2", "Bob", "3">> >>)
DocTSBlank ==
  Tab(<< <<"100", "Cup", "", "Chess", "d1", "d2", "2", "1", "2", "0", "3">>,
         <<"">>,
         <<"", "", "">>,
         <<"100", "1", "0", "100", "Ann", "5", "1", "Bob", "-1", "0">> >>)

\* Game lists with a malformed row: a status that is none of the three on
\* line 2, a premium flag "2" on line 1, and an id that is no number on the
\* third line of a text that starts with an empty line.
DocGLStatus ==
  Tab(<< <<"5", "Chess", "Chess", "published", "0">>,
         <<"6", "go", "Go", "gamma", "1">> >>)
DocGLPremium ==
  Tab(<< <<"5", "Chess", "Chess", "published", "2">>,
         <<"6", "go", "Go", "beta", "1">> >>)
DocGLLeadBad ==
  Tab(<< <<"">>,
         <<"5", "Chess", "Chess", "published", "0">>,
         <<"x", "go", "Go", "beta", "1">> >>)

\* Player stats: a player with two XP rows, and a player without a Recent
\* games row after a complete one.
DocPSTwoXp ==
  Tab(<< <<"Ann", "7", "XP", "9", "95", "5", "3">>,
         <<"Ann", "7", "XP", "8", "100", "6", "5">>,
         <<"Ann", "7", "Recent games", "2", "1", "45", "3">>,
         <<"Ann", "7", "Chess", "1500", "42", "3", "1">> >>)
DocPSNoRecent ==
  Tab(<< <<"Bob", "8", "XP", "5", "50", "3", "1">>,
         <<"Bob", "8", "Recent games", "0", "0", "3", "1">>,
         <<"Ann", "7", "XP", "9", "95", "5", "3">>,
         <<"Ann", "7", "Chess", "1500", "42", "3", "1">> >>)

\* Two players of one name, their rows interleaved, one of them under another
\* name on one row; a row without elo.
DocPSNames ==
  Tab(<< <<"Ann", "7", "XP", "9", "95", "5", "3">>,
         <<"Ann", "8", "XP", "5", "50", "3", "1">>,
         <<"Ann", "8", "Go", "N/A", "", "2", "1">>,
         <<"Annie", "7", "Recent games", "2", "1", "45", "3">>,
         <<"Ann", "7", "Chess", "1500", "42", "3", "1">>,
         <<"Ann", "8", "Recent games", "0", "0", "3", "1">>,
         <<"Ann", "7", "Go", "", "5", "1", "0">> >>)

\* Move timelines with a row of another game, a row of another table on the
\* third line of a text that starts with an empty line, a row without player
\* name and a row of six fields.
DocMSGame ==
  Semi(<< <<"50", "Chess", "1", "d1", "e1", "Ann", "5">>,
          <<"50", "Chess", "2", "d2", "e2", "Bob", "3">>,
          <<"50", "Go", "3", "d3", "e3", "Ann", "2">> >>)
DocMSLeadMixed ==
  Semi(<< <<"">>,
          <<"50", "Chess", "1", "d1", "e1", "Ann", "5">>,
          <<"51", "Chess", "2", "d2", "e2", "Bob", "3">> >>)
DocMSNoName ==
  Semi(<< <<"50", "Chess", "1", "d1", "e1", "Ann", "5">>,
          <<"50", "Chess", "2", "d2", "e2", "", "3">> >>)
DocMSShort == Semi(<< <<"50", "Chess", "1", "d1", "e1", "Ann">> >>)

\* Tournaments: a match row with five columns of player data; a match row of
\* a tournament no summary declares; the same on the third line of a text that
\* starts with an empty line; two tournaments with their match rows
\* interleaved; a tournament declared twice, a match after each summary.
DocTSCols ==
  Tab(<< <<"100", "Cup", "", "Chess", "d1", "d2", "2", "1", "2", "0", "3">>,
         <<"100", "1", "0", "100", "Ann", "5", "1", "Bob", "-1">> >>)
DocTSOther ==
  Tab(<< <<"100", "Cup", "", "Chess", "d1", "d2", "2", "1", "2", "0", "3">>,
         <<"100", "1", "0", "100", "Ann", "5", "1", "Bob", "-1", "0">>,
         <<"101", "7", "1", "100", "Ann", "-1", "0", "Cy", "9", "1">> >>)
DocTSLeadBad ==
  Tab(<< <<"">>,
         <<"100", "Cup", "", "Chess", "d1", "d2", "2", "1", "2", "0", "3">>,
         <<"101", "7", "1", "100", "Ann", "-1", "0", "Cy", "9", "1">> >>)
DocTSTwo ==
  Tab(<< <<"100", "Cup", "", "Chess", "d1", "d2", "2", "1", "2", "0", "3">>,
         <<"101", "Open", "", "Go", "d1", "d2", "1", "1", "1", "0", "2">>,
         <<"101", "7", "1", "100", "Ann", "-1", "0", "Cy", "9", "1">>,
         <<"100", "1", "0", "100", "Ann", "5", "1", "Bob", "-1", "0">>,
         <<"100", "2", "1", "50">> >>)
DocTSTwice ==
  Tab(<< <<"100", "Cup", "", "Chess", "d1", "d2", "2", "1", "2", "0", "3">>,
         <<"100", "1", "0", "100", "Ann", "5", "1", "Bob", "-1", "0">>,
         <<"100", "Cup 2", "", "Chess", "d1", "d3", "3", "1", "1", "0", "2">>,
         <<"100", "3", "0", "100", "Bob", "5", "1", "Cy", "3", "0">> >>)

\* A row of three columns on the second line of a player-stats text that
\* starts with an empty line; a four-column row after a game row and an
\* empty line.
DocPSLeadBad == Tab(<< <<"">>, <<"Ann", "7", "XP">> >>)
DocGLMidBad ==
  Tab(<< <<"5", "Chess", "Chess", "published", "0">>,
         <<"">>,
         <<"6", "go", "Go", "beta">> >>)

ParserDocs ==
  {DocGLBlank, DocMSBlank, DocTSBlank, DocGLStatus, DocGLPremium, DocGLLeadBad,
   DocPSLeadBad, DocGLMidBad,
   DocPSTwoXp, DocPSNoRecent, DocPSNames,
   DocMSGame, DocMSLeadMixed, DocMSNoName, DocMSShort,
   DocTSCols, DocTSOther, DocTSLeadBad, DocTSTwo, DocTSTwice}

\* The player of DocPS1 with another number of wins and no game row.
DocPSWins ==
  Tab(<< <<"Ann", "7", "XP", "9", "95", "5", "1">>,
         <<"Ann", "7", "Recent games", "2", "1", "45", "3">> >>)

\* Documents for callers that write the same rows at once.
RaceDocs == {DocPSWins}

\* Every payload of the model.
AllDocs == Docs \cup DetectorDocs \cup ParserDocs \cup RaceDocs

\* The import_type argument: "" stands for None (auto-detect).
FormatTags == {"player_stats", "game_list", "move_stats", "tournament_stats"}
Tags == FormatTags \cup {"", "unsupported_type"}

----------------------------------------------------------------------------
(* State.  Each thread runs import_data calls one after the other on its   *)
(* own session (the scoped_session of db.py) and its own connection.       *)

MaxCalls == 3

Threads == {1, 2}

\* The thread of the caller when there is one caller only.
Caller == CHOOSE t \in Threads : \A u \in Threads : t <= u

VARIABLES
  db,      \* the committed store
  lock,    \* the thread whose connection holds SQLite's write lock, 0 for none
  work,    \* the store as the lock holder's open transaction sees it
  th,      \* per thread: the running call, its locals and its session
  ncalls   \* import_data calls started so far

vars == <<db, lock, work, th, ncalls>>

ZeroResults ==
  [players_created |-> 0, players_updated |-> 0, games_created |-> 0,
   game_stats_created |-> 0, game_stats_updated |-> 0, games_updated |-> 0,
   matches_created |-> 0, matches_updated |-> 0, moves_created |-> 0,
   tournaments_created |-> 0, tournaments_updated |-> 0,
   tournament_matches_created |-> 0]

\* The 'error' of a result: what the message is prefixed with, the line it
\* cites (0 for none), its text and the values it cites.
NoError == [prefix |-> "", line |-> 0, msg |-> <<>>]

NoResult == [success |-> FALSE, error_type |-> "", import_type |-> "", error |-> NoError]

\* No document at all.
NoDoc == [sep |-> "", lines |-> <<>>]

NoMemo ==
  [valid |-> FALSE, raw_text |-> DocEmpty, given_type |-> "", pre |-> EmptyStore,
   result |-> NoResult, results |-> ZeroResults, post |-> EmptyStore]

\* pc is the coordinator's state; at is the place in the code inside it.
\* History of the call, for the properties: given_type is the import_type
\* argument as passed, touched records that the call has sent a query, add,
\* delete or flush to its session, pre is the committed store the call started
\* from.  History of the caller: prev is the document of its previous call if
\* that was a committed player-stats import (NoDoc otherwise), memo is one
\* earlier call with its outcome.
IdleThread ==
  [pc |-> "Idle", at |-> "", raw_text |-> DocEmpty, import_type |-> "",
   parsed_data |-> <<>>, i |-> 0, j |-> 0, found |-> FALSE, record_id |-> 0,
   next_placeholder_id |-> 0, results |-> ZeroResults, pending |-> <<>>,
   open |-> FALSE, err |-> "", line |-> 0, msg |-> <<>>, result |-> NoResult,
   given_type |-> "", touched |-> FALSE, pre |-> EmptyStore,
   prev |-> NoDoc, memo |-> NoMemo]

Terminal == {"Committed", "RolledBack"}

Init ==
  /\ db = EmptyStore
  /\ lock = 0
  /\ work = EmptyStore
  /\ th = [t \in Threads |-> IdleThread]
  /\ ncalls = 0

\* What the queries of thread t read: SQLite opens the transaction at the
\* connection's first INSERT, UPDATE or DELETE; before it a SELECT reads the
\* committed store.
View(t) == IF lock = t THEN work ELSE db

\* The connection of thread t may write: no other connection holds the lock.
CanWrite(t) == lock \in {0, t}

Set(t, r) == th' = [th EXCEPT ![t] = r]

\* An exception leaves the try block of import_data for its except clauses.
Raise(t, kind, msg) ==
  [th[t] EXCEPT !.at = "raise", !.err = kind, !.line = 0, !.msg = msg]

\* The call thread t has finished, as the caller may remember it.
MemoOf(t) ==
  [valid |-> TRUE, raw_text |-> th[t].raw_text, given_type |-> th[t].given_type,
   pre |-> th[t].pre, result |-> th[t].result, results |-> th[t].results,
   post |-> db]

\* import_data entry, with one of the (payload, import_type) pairs of inputs:
\* session = get_session() hands the thread its session again, with whatever
\* the session still holds.  remember tells whether the caller may note the
\* call that has just returned.
Start(t, inputs, remember) ==
  /\ th[t].pc \in Terminal \cup {"Idle"}
  /\ ncalls < MaxCalls
  /\ \E in \in inputs, keep \in remember :
       Set(t, [IdleThread EXCEPT
                 !.pc = "Parsing", !.raw_text = in[1], !.import_type = in[2],
                 !.given_type = in[2], !.open = TRUE, !.pre = db,
                 !.pending = th[t].pending,
                 !.prev = IF th[t].pc = "Committed" /\ th[t].import_type = "player_stats"
                            THEN th[t].raw_text ELSE NoDoc,
                 !.memo = IF keep /\ th[t].pc \in Terminal THEN MemoOf(t)
                          ELSE th[t].memo])
  /\ ncalls' = ncalls + 1
  /\ UNCHANGED <<db, lock, work>>

\* The parser import_data calls for a format tag.
ParserOf(type, p) ==
  CASE type = "player_stats" -> parse_player_stats(p)
    [] type = "game_list" -> parse_game_list(p)
    [] type = "move_stats" -> parse_move_stats(p)
    [] type = "tournament_stats" -> parse_tournament_stats(p)

\* The detector and the parsers are pure functions of the payload: what they
\* return or raise on each payload, worked out once.
DetectTable == { [raw_text |-> p, type |-> detect_import_type(p)] : p \in AllDocs }

ParseTable ==
  { [type |-> ty, raw_text |-> p, res |-> ParserOf(ty, p)] :
      ty \in FormatTags, p \in AllDocs }

\* detect_import_type(raw_text) and the parser call, as import_data makes them.
Detected(p) == (CHOOSE x \in DetectTable : x.raw_text = p).type

ParseOutcome(type, p) ==
  (CHOOSE x \in ParseTable : x.type = type /\ x.raw_text = p).res

\* The first place of the upsert routine of a format.
EntryOf(type) ==
  CASE type = "player_stats" -> "ps_begin"
    [] type = "game_list" -> "gl_row"
    [] type = "move_stats" -> "ms_query"
    [] type = "tournament_stats" -> "ts_query"

\* A return that leaves the session as it is.
CloseMut(r) == r

\* session.close() in the finally of import_data: the session is released and
\* holds nothing any more.
Close(r) == [r EXCEPT !.open = FALSE, !.pending = <<>>]

\* An import_data that sends its first query before the parser has finished.
AfterParseMut(r, type, res) ==
  IF res.ok
    THEN [r EXCEPT !.pc = "Importing", !.at = EntryOf(type), !.import_type = type,
            !.parsed_data = res.data, !.i = 1]
    ELSE [r EXCEPT !.at = "raise", !.err = res.err, !.line = res.line,
            !.msg = res.msg, !.import_type = type, !.touched = TRUE]

\* Lines 383-394: the parser has returned or raised res; only a parser that
\* returned lets the upsert routine of the format start.
AfterParse(r, type, res) ==
  IF res.ok
    THEN [r EXCEPT !.pc = "Importing", !.at = EntryOf(type), !.import_type = type,
            !.parsed_data = res.data, !.i = 1]
    ELSE [r EXCEPT !.at = "raise", !.err = res.err, !.line = res.line,
            !.msg = res.msg, !.import_type = type]

\* An import_data that hands a tag it does not know to the game-list parser.
UnsupportedMut(r, type) == AfterParse(r, "game_list", ParseOutcome("game_list", r.raw_text))

\* Lines 395-400: the return for a tag that is none of the four formats; the
\* finally closes the session.
Unsupported(r, type) ==
  Close([r EXCEPT !.pc = "RolledBack", !.import_type = type,
           !.result = [success |-> FALSE, error_type |-> "UnsupportedTypeError",
                       import_type |-> type,
                       error |-> [prefix |-> "Unsupported import type: ", line |-> 0,
                                  msg |-> <<type>>]]])

\* import_data up to the call of the upsert routine: detection when no tag is
\* given, the unsupported-type return, the parser.
Parse(t) ==
  /\ th[t].pc = "Parsing" /\ th[t].at = ""
  /\ LET type == IF th[t].import_type = "" THEN Detected(th[t].raw_text)
                 ELSE th[t].import_type
     IN IF type \notin FormatTags
          THEN Set(t, Unsupported(th[t], type))
          ELSE Set(t, AfterParse(th[t], type, ParseOutcome(type, th[t].raw_text)))
  /\ UNCHANGED <<db, lock, work, ncalls>>

\* A rollback that keeps what the open transaction has written.
RollbackMut(committed, working) == working

\* session.rollback(): what is committed stays, the open transaction is dropped.
Rollback(committed, working) == committed

\* A failure result that reports every exception under its own class name
\* and without text.
FailureResultMut(r) ==
  [success |-> FALSE, error_type |-> r.err, import_type |-> r.import_type,
   error |-> NoError]

\* Lines 411-431: the result of the except clause that catches the exception:
\* str(e) for a ValidationError or a ParseError, "Import failed: " + str(e)
\* under 'ImportError' for any other exception.
FailureResult(r) ==
  IF r.err \in {"ValidationError", "ParseError"}
    THEN [success |-> FALSE, error_type |-> r.err, import_type |-> r.import_type,
          error |-> [prefix |-> "", line |-> r.line, msg |-> r.msg]]
    ELSE [success |-> FALSE, error_type |-> "ImportError", import_type |-> r.import_type,
          error |-> [prefix |-> "Import failed: ", line |-> r.line, msg |-> r.msg]]

\* The except clauses of import_data and its finally: rollback, the failure
\* result, session.close().
HandleError(t) ==
  /\ th[t].at = "raise"
  /\ db' = IF lock = t THEN Rollback(db, work) ELSE db
  /\ lock' = IF lock = t THEN 0 ELSE lock
  /\ work' = IF lock = t THEN db' ELSE work
  /\ Set(t, Close([th[t] EXCEPT !.pc = "RolledBack", !.at = "",
                     !.result = FailureResult(th[t])]))
  /\ UNCHANGED ncalls

\* session.commit() and the success return: the flush of what is pending, then
\* COMMIT; the finally closes the session.
Commit(t) ==
  /\ th[t].pc = "Importing" /\ th[t].at = "commit"
  /\ CanWrite(t)
  /\ LET f == Flush(View(t), th[t].pending) IN
       IF f.ok
         THEN /\ db' = f.store
              /\ work' = f.store
              /\ lock' = 0
              /\ Set(t, Close([th[t] EXCEPT !.pc = "Committed", !.at = "",
                                 !.result = [success |-> TRUE, error_type |-> "",
                                             import_type |-> th[t].import_type,
                                             error |-> NoError]]))
         ELSE /\ db' = db
              /\ work' = f.store
              /\ lock' = t
              /\ Set(t, Raise(t, "IntegrityError", <<"UNIQUE constraint failed">>))
  /\ UNCHANGED ncalls

----------------------------------------------------------------------------
(* import_player_stats                                                     *)

\* The allocation with the filter on negative ids left out.
NextPlaceholderIdMut(games) ==
  LET ids == { g.bga_game_id : g \in games } IN
    IF ids = {} THEN 0 - 1 ELSE Min(ids) - 1

\* The smallest negative bga_game_id of the store minus one, or -1.
NextPlaceholderId(games) ==
  LET neg == { g.bga_game_id : g \in { x \in games : x.bga_game_id < 0 } } IN
    IF neg = {} THEN 0 - 1 ELSE Min(neg) - 1

\* The Player columns a player dictionary sets.
PlayerRow(id, d) ==
  [id |-> id, bga_player_id |-> d.bga_player_id, name |-> d.name, xp |-> d.xp,
   karma |-> d.karma, matches_total |-> d.matches_total, wins_total |-> d.wins_total,
   abandoned |-> d.abandoned, timeout |-> d.timeout,
   recent_matches |-> d.recent_matches, last_seen_days |-> d.last_seen_days]

\* The placeholder Game of a name.
PlaceholderGame(bga_game_id, name) ==
  [id |-> 0, bga_game_id |-> bga_game_id, name |-> name, display_name |-> name,
   status |-> "unknown", premium |-> FALSE]

\* A lookup by name that finds placeholder games only.
GamesNamedMut(games, name) == { g \in games : g.name = name /\ g.bga_game_id < 0 }

\* session.query(Game).filter_by(name=...)
GamesNamed(games, name) == { g \in games : g.name = name }

\* The stat lookup with its two keys taken for each other.
StatsOfMut(stats, player_id, game_id) ==
  { x \in stats : x.player_id = game_id /\ x.game_id = player_id }

\* session.query(PlayerGameStat).filter_by(player_id=..., game_id=...)
StatsOf(stats, player_id, game_id) ==
  { x \in stats : x.player_id = player_id /\ x.game_id = game_id }

\* Counters that take every game row for a new stat.
StatCountsMut(results, create, found) ==
  [results EXCEPT !.games_created = IF create THEN @ + 1 ELSE @,
                  !.game_stats_created = @ + 1]

\* The counters of one game row: games_created for a placeholder, and
\* game_stats_updated or game_stats_created for the stat found or added.
StatCounts(results, create, found) ==
  [results EXCEPT !.games_created = IF create THEN @ + 1 ELSE @,
                  !.game_stats_updated = IF found THEN @ + 1 ELSE @,
                  !.game_stats_created = IF found THEN @ ELSE @ + 1]

\* An update that leaves the stat found as it is.
UpdatedStatMut(x, gs) == x

\* Lines 147-150: the stat found takes the values of the game row.
UpdatedStat(x, gs) ==
  [x EXCEPT !.elo = gs.elo, !.rank = gs.rank, !.played = gs.played, !.won = gs.won]

\* A key read before the flush has given the row one: the key to come.
LastRowIdMut(rows) == Max({ r.id : r \in rows }) + 1

\* The key of the row the last INSERT into a table got.
LastRowId(rows) == Max({ r.id : r \in rows })

\* The place after game row j of player i: the next row, the next player, or
\* the commit of import_data.
AfterStat(r, i, j) ==
  IF j < Len(r.parsed_data[i].game_stats)
    THEN [r EXCEPT !.at = "ps_stat", !.j = j + 1]
  ELSE IF i < Len(r.parsed_data)
    THEN [r EXCEPT !.at = "ps_player", !.i = i + 1, !.j = 0]
  ELSE [r EXCEPT !.at = "commit"]

\* Lines 73-76: the query for the smallest negative game id.
PS_Begin(t) ==
  /\ th[t].pc = "Importing" /\ th[t].at = "ps_begin"
  /\ Set(t, [th[t] EXCEPT !.at = "ps_player", !.touched = TRUE,
               !.next_placeholder_id = NextPlaceholderId(View(t).games)])
  /\ UNCHANGED <<db, lock, work, ncalls>>

\* Lines 80-112: the player query and the update of the row found, or the add
\* of a new Player.
PS_Player(t) ==
  /\ th[t].pc = "Importing" /\ th[t].at = "ps_player"
  /\ LET r == th[t]
         d == r.parsed_data[r.i]
         hit == { x \in View(t).players : x.bga_player_id = d.bga_player_id }
     IN IF hit # {}
          THEN Set(t, [r EXCEPT !.at = "ps_flush", !.touched = TRUE,
                         !.found = TRUE, !.record_id = First(hit).id,
                         !.pending = Append(@, UpdateOp("players", First(hit),
                                                 PlayerRow(First(hit).id, d))),
                         !.results.players_updated = @ + 1])
          ELSE Set(t, [r EXCEPT !.at = "ps_flush", !.touched = TRUE,
                         !.found = FALSE, !.record_id = 0,
                         !.pending = Append(@, InsertOp("players", PlayerRow(0, d))),
                         !.results.players_created = @ + 1])
  /\ UNCHANGED <<db, lock, work, ncalls>>

\* Line 115: the flush that gives the player its key.
PS_Flush(t) ==
  /\ th[t].pc = "Importing" /\ th[t].at = "ps_flush"
  /\ CanWrite(t)
  /\ LET r == th[t]
         f == Flush(View(t), r.pending)
     IN /\ lock' = t
        /\ work' = f.store
        /\ IF f.ok
             THEN Set(t, AfterStat([r EXCEPT !.pending = <<>>,
                                      !.record_id = IF r.found THEN @
                                                    ELSE LastRowId(f.store.players)],
                                   r.i, 0))
             ELSE Set(t, Raise(t, "IntegrityError", <<"UNIQUE constraint failed">>))
  /\ UNCHANGED <<db, ncalls>>

\* Lines 118-165, one game row: the game by name, a placeholder (flushed at
\* once) if there is none, then the stat of the (player, game) pair, updated
\* or added.
PS_Stat(t) ==
  /\ th[t].pc = "Importing" /\ th[t].at = "ps_stat"
  /\ CanWrite(t)
  /\ LET r == th[t]
         gs == r.parsed_data[r.i].game_stats[r.j]
         named == GamesNamed(View(t).games, gs.game_name)
         create == named = {}
         f == IF create
                THEN Flush(View(t),
                           Append(r.pending,
                                  InsertOp("games", PlaceholderGame(r.next_placeholder_id,
                                                                    gs.game_name))))
                ELSE [ok |-> TRUE, store |-> View(t)]
     IN IF ~f.ok
          THEN /\ lock' = t
               /\ work' = f.store
               /\ Set(t, Raise(t, "IntegrityError", <<"UNIQUE constraint failed">>))
          ELSE LET game_id == IF create THEN LastRowId(f.store.games) ELSE First(named).id
                   stat == StatsOf(f.store.stats, r.record_id, game_id)
                   op == IF stat # {}
                           THEN UpdateOp("stats", First(stat), UpdatedStat(First(stat), gs))
                           ELSE InsertOp("stats",
                                  [id |-> 0, player_id |-> r.record_id,
                                   game_id |-> game_id, elo |-> gs.elo, rank |-> gs.rank,
                                   played |-> gs.played, won |-> gs.won])
                   r1 == [r EXCEPT
                            !.pending = Append(IF create THEN <<>> ELSE @, op),
                            !.next_placeholder_id = IF create THEN @ - 1 ELSE @,
                            !.results = StatCounts(@, create, stat # {})]
               IN /\ lock' = IF create THEN t ELSE lock
                  /\ work' = IF create THEN f.store ELSE work
                  /\ Set(t, AfterStat(r1, r.i, r.j))
  /\ UNCHANGED <<db, ncalls>>

----------------------------------------------------------------------------
(* import_game_list                                                        *)

\* session.query(Game).filter_by(bga_game_id=...)
GamesWithId(games, bga_game_id) == { g \in games : g.bga_game_id = bga_game_id }

\* Lines 190-214, one record: nothing is flushed before the commit, so the
\* query does not see the games this call has added.
GL_Row(t) ==
  /\ th[t].pc = "Importing" /\ th[t].at = "gl_row"
  /\ LET r == th[t]
         d == r.parsed_data[r.i]
         hit == GamesWithId(View(t).games, d.bga_game_id)
         op == IF hit # {}
                 THEN UpdateOp("games", First(hit),
                        [First(hit) EXCEPT !.name = d.name,
                           !.display_name = d.display_name, !.status = d.status,
                           !.premium = d.premium])
                 ELSE InsertOp("games",
                        [id |-> 0, bga_game_id |-> d.bga_game_id, name |-> d.name,
                         display_name |-> d.display_name, status |-> d.status,
                         premium |-> d.premium])
     IN Set(t, [r EXCEPT !.touched = TRUE,
                  !.at = IF r.i < Len(r.parsed_data) THEN "gl_row" ELSE "commit",
                  !.i = @ + 1,
                  !.pending = Append(@, op),
                  !.results.games_updated = IF hit # {} THEN @ + 1 ELSE @,
                  !.results.games_created = IF hit # {} THEN @ ELSE @ + 1])
  /\ UNCHANGED <<db, lock, work, ncalls>>

----------------------------------------------------------------------------
(* import_move_stats                                                       *)

\* The MatchMove objects of the parsed moves, in document order.
MoveOps(match_id, moves) ==
  [k \in 1..Len(moves) |->
     InsertOp("moves",
       [id |-> 0, match_id |-> match_id, move_no |-> moves[k].move_no,
        player_name |-> moves[k].player_name,
        datetime_local |-> moves[k].datetime_local,
        datetime_excel |-> moves[k].datetime_excel,
        remaining_time |-> moves[k].remaining_time])]

\* Lines 234-254: the match query, and the update of the match found or the
\* add of a new Match.
MS_Query(t) ==
  /\ th[t].pc = "Importing" /\ th[t].at = "ms_query"
  /\ LET r == th[t]
         d == r.parsed_data[1]
         hit == { m \in View(t).matches : m.bga_table_id = d.table_id }
     IN IF hit # {}
          THEN Set(t, [r EXCEPT !.at = "ms_write", !.touched = TRUE, !.found = TRUE,
                         !.record_id = First(hit).id,
                         !.pending = <<UpdateOp("matches", First(hit),
                                        [First(hit) EXCEPT !.game_name = d.game_name])>>,
                         !.results.matches_updated = 1])
          ELSE Set(t, [r EXCEPT !.at = "ms_write", !.touched = TRUE, !.found = FALSE,
                         !.pending = <<InsertOp("matches",
                                        [id |-> 0, bga_table_id |-> d.table_id,
                                         game_name |-> d.game_name])>>,
                         !.results.matches_created = 1])
  /\ UNCHANGED <<db, lock, work, ncalls>>

\* Lines 247 and 255-271: the bulk delete of the old moves of a match found,
\* or the flush of the new match; then the moves are added.
MS_Write(t) ==
  /\ th[t].pc = "Importing" /\ th[t].at = "ms_write"
  /\ CanWrite(t)
  /\ LET r == th[t]
         d == r.parsed_data[1]
         f == IF r.found
                THEN [ok |-> TRUE, store |-> DeleteMoves(View(t), r.record_id)]
                ELSE Flush(View(t), r.pending)
         match_id == IF r.found THEN r.record_id ELSE LastRowId(f.store.matches)
     IN /\ lock' = t
        /\ work' = f.store
        /\ IF f.ok
             THEN Set(t, [r EXCEPT !.at = "commit", !.record_id = match_id,
                            !.pending = (IF r.found THEN @ ELSE <<>>)
                                          \o MoveOps(match_id, d.moves),
                            !.results.moves_created = Len(d.moves)])
             ELSE Set(t, Raise(t, "IntegrityError", <<"UNIQUE constraint failed">>))
  /\ UNCHANGED <<db, ncalls>>

----------------------------------------------------------------------------
(* import_tournament_stats                                                 *)

\* The Tournament columns a tournament dictionary sets.
TournamentRow(id, d) ==
  [id |-> id, bga_tournament_id |-> d.tournament_id, name |-> d.name,
   game_name |-> d.game_name, start_time |-> d.start_time, end_time |-> d.end_time,
   rounds |-> d.rounds, round_limit |-> d.round_limit,
   total_matches |-> d.total_matches, timeout_matches |-> d.timeout_matches,
   player_count |-> d.player_count]

\* The TournamentMatchPlayer objects of a parsed match.
MatchPlayerOps(tournament_match_id, players) ==
  [k \in 1..Len(players) |->
     InsertOp("tmplayers",
       [id |-> 0, tournament_match_id |-> tournament_match_id,
        player_name |-> players[k].name,
        remaining_time_seconds |-> players[k].remaining_time_seconds,
        points |-> players[k].points])]

\* The place after match j of tournament i.
AfterMatch(r, i, j) ==
  IF j < Len(r.parsed_data[i].matches)
    THEN [r EXCEPT !.at = "ts_match", !.j = j + 1]
  ELSE IF i < Len(r.parsed_data)
    THEN [r EXCEPT !.at = "ts_query", !.i = i + 1, !.j = 0]
  ELSE [r EXCEPT !.at = "commit"]

\* Lines 297-332 but the delete: the tournament query, and the update of the
\* tournament found or the add of a new Tournament.
TS_Query(t) ==
  /\ th[t].pc = "Importing" /\ th[t].at = "ts_query"
  /\ LET r == th[t]
         d == r.parsed_data[r.i]
         hit == { x \in View(t).tournaments : x.bga_tournament_id = d.tournament_id }
     IN IF hit # {}
          THEN Set(t, [r EXCEPT !.at = "ts_write", !.touched = TRUE, !.found = TRUE,
                         !.record_id = First(hit).id,
                         !.pending = Append(@, UpdateOp("tournaments", First(hit),
                                                 TournamentRow(First(hit).id, d))),
                         !.results.tournaments_updated = @ + 1])
          ELSE Set(t, [r EXCEPT !.at = "ts_write", !.touched = TRUE, !.found = FALSE,
                         !.record_id = 0,
                         !.pending = Append(@, InsertOp("tournaments", TournamentRow(0, d))),
                         !.results.tournaments_created = @ + 1])
  /\ UNCHANGED <<db, lock, work, ncalls>>

\* Lines 316 and 334: the bulk delete of the old matches of a tournament
\* found, and the flush that gives the tournament its key.
TS_Write(t) ==
  /\ th[t].pc = "Importing" /\ th[t].at = "ts_write"
  /\ CanWrite(t)
  /\ LET r == th[t]
         f == Flush(IF r.found THEN DeleteTournamentMatches(View(t), r.record_id)
                    ELSE View(t),
                    r.pending)
     IN /\ lock' = t
        /\ work' = f.store
        /\ IF f.ok
             THEN Set(t, AfterMatch([r EXCEPT !.pending = <<>>,
                                       !.record_id = IF r.found THEN @
                                                     ELSE LastRowId(f.store.tournaments)],
                                    r.i, 0))
             ELSE Set(t, Raise(t, "IntegrityError", <<"UNIQUE constraint failed">>))
  /\ UNCHANGED <<db, ncalls>>

\* Lines 337-356, one match: the TournamentMatch is added and flushed for its
\* key, then its players are added.
TS_Match(t) ==
  /\ th[t].pc = "Importing" /\ th[t].at = "ts_match"
  /\ CanWrite(t)
  /\ LET r == th[t]
         d == r.parsed_data[r.i].matches[r.j]
         f == Flush(View(t),
                    Append(r.pending,
                           InsertOp("tmatches",
                             [id |-> 0, tournament_id |-> r.record_id,
                              bga_table_id |-> d.table_id, is_timeout |-> d.is_timeout,
                              progress |-> d.progress])))
     IN /\ lock' = t
        /\ work' = f.store
        /\ IF f.ok
             THEN Set(t, AfterMatch([r EXCEPT
                                       !.pending = MatchPlayerOps(LastRowId(f.store.tmatches),
                                                                  d.players),
                                       !.results.tournament_matches_created = @ + 1],
                                    r.i, r.j))
             ELSE Set(t, Raise(t, "IntegrityError", <<"UNIQUE constraint failed">>))
  /\ UNCHANGED <<db, ncalls>>

----------------------------------------------------------------------------
(* Specifications.                                                         *)

\* The statement thread t is about to send needs the write lock and another
\* connection holds it for longer than SQLite's busy timeout: the statement
\* raises OperationalError (database is locked).
BusyTimeout(t) ==
  /\ th[t].pc = "Importing"
  /\ th[t].at \in {"ps_flush", "ms_write", "ts_write", "commit"}
  /\ ~CanWrite(t)
  /\ Set(t, Raise(t, "OperationalError", <<"database is locked">>))
  /\ UNCHANGED <<db, lock, work, ncalls>>

\* The upsert routines, the commit and the error handling of thread t.
Run(t) ==
  \/ Parse(t)
  \/ PS_Begin(t) \/ PS_Player(t) \/ PS_Flush(t) \/ PS_Stat(t)
  \/ GL_Row(t)
  \/ MS_Query(t) \/ MS_Write(t)
  \/ TS_Query(t) \/ TS_Write(t) \/ TS_Match(t)
  \/ Commit(t)
  \/ HandleError(t)

\* One caller: import_data calls one after the other, any payload, any tag.
Inputs == Docs \X Tags

Next == \E t \in {Caller} : Start(t, Inputs, {FALSE}) \/ Run(t)

Spec == Init /\ [][Next]_vars

\* One caller whose payloads are the texts of the detector, with no tag, and
\* the documents of the parsers, each with the tag of its format, among
\* documents of the four formats; the texts without a row go to every parser.
\* Two calls carry a tag that is no format, one a game list the store refuses.
TextInputs ==
  (DetectorDocs \X {""})
    \cup {<<DocText, "">>, <<DocEmpty, "">>, <<DocPS1, "">>, <<DocGL1, "">>,
          <<DocGLNeg, "">>, <<DocMS3, "">>, <<DocTS1, "">>, <<DocTS2, "">>,
          <<DocTSBad, "">>}
    \cup ({DocEmpty, DocBlank} \X FormatTags)
    \cup {<<DocPS2, "player_stats">>, <<DocGLBlank, "game_list">>,
          <<DocMSBlank, "move_stats">>, <<DocTSBlank, "tournament_stats">>}
    \cup ({DocGLBad, DocGLStatus, DocGLPremium, DocGLLeadBad, DocGLNeg, DocGL2,
            DocGLMidBad}
            \X {"game_list"})
    \cup ({DocPS3, DocPSNoXp, DocPSShort, DocPSTwoXp, DocPSNoRecent, DocPSNames,
            DocPSLeadBad}
            \X {"player_stats"})
    \cup ({DocMSMixed, DocMSGame, DocMSLeadMixed, DocMSNoName, DocMSShort, DocMS2}
            \X {"move_stats"})
    \cup {<<DocGL1, "unsupported_type">>, <<DocText, "unsupported_type">>,
          <<DocGLDup, "game_list">>}
    \cup ({DocTS2, DocTSBad, DocTSCols, DocTSOther, DocTSLeadBad, DocTSTwo, DocTSTwice}
            \X {"tournament_stats"})

NextText == \E t \in {Caller} : Start(t, TextInputs, {FALSE}) \/ Run(t)

SpecText == Init /\ [][NextText]_vars

\* One caller that may remember an earlier call, and always goes on: a call
\* is straight-line code on the caller's thread.
MemoInputs ==
  {<<DocText, "">>, <<DocPS1, "unsupported_type">>, <<DocPSShort, "player_stats">>,
   <<DocPSNoXp, "">>, <<DocPS1, "">>, <<DocPSDup, "">>, <<DocGL1, "game_list">>,
   <<DocGLDup, "">>, <<DocMS3, "">>, <<DocTS1, "">>}

NextMemo == \E t \in {Caller} : Start(t, MemoInputs, BOOLEAN) \/ Run(t)

SpecMemo == Init /\ [][NextMemo]_vars /\ WF_vars(NextMemo)

\* Two callers at once, each on its own thread.
ConcInputs ==
  {<<DocPS1, "player_stats">>, <<DocPS3, "">>, <<DocGL1, "game_list">>,
   <<DocMS3, "">>, <<DocTS1, "">>}

NextConc ==
  \E t \in Threads : Start(t, ConcInputs, {FALSE}) \/ Run(t) \/ BusyTimeout(t)

SpecConc == Init /\ [][NextConc]_vars

\* Two callers at once whose documents supply the same player, game, match
\* and tournament with other attributes.
RaceInputs ==
  {<<DocPS1, "player_stats">>, <<DocPS2, "player_stats">>,
   <<DocPSWins, "player_stats">>, <<DocGL1, "game_list">>, <<DocGL2, "game_list">>,
   <<DocMS3, "move_stats">>, <<DocTS1, "tournament_stats">>}

NextRace ==
  \E t \in Threads : Start(t, RaceInputs, {FALSE}) \/ Run(t) \/ BusyTimeout(t)

SpecRace == Init /\ [][NextRace]_vars

----------------------------------------------------------------------------
(* Properties of import_data.                                              *)

\* The rows of a table in key order.
RECURSIVE ById(_)
ById(rows) ==
  IF rows = {} THEN <<>>
  ELSE LET r == First(rows) IN <<r>> \o ById(rows \ {r})

\* The lines of a document that hold text.
HoldsText(l) == l # <<"">>
TextLines(p) == SelectSeq(p.lines, HoldsText)

\* C1: a call that returns success = false leaves every table of the
\* committed store exactly as it was when the call began, also when the
\* failure came after rows of the batch had been flushed; it holds no
\* write transaction any more.
C1_FailedImportLeavesStore ==
  \A t \in {Caller} :
    (th[t].pc = "RolledBack" /\ ~th[t].result.success)
      => (db = th[t].pre /\ lock # t)

\* A call that failed with a storage error after it had flushed a new player
\* and a new game, on a store that was not empty.
C1_Witness ==
  /\ th[Caller].pc = "RolledBack"
  /\ th[Caller].result.error_type = "ImportError"
  /\ th[Caller].results.players_created >= 1
  /\ th[Caller].results.games_created >= 1
  /\ th[Caller].pre # EmptyStore
  /\ db = th[Caller].pre

\* C2: when the parser of the selected format raises ValidationError or
\* ParseError, the call has sent no query, add, delete or flush to its
\* session: nothing is pending and no transaction is open.
C2_ParserFailsBeforeStorage ==
  \A t \in {Caller} :
    th[t].err \in {"ValidationError", "ParseError"}
      => (~th[t].touched /\ th[t].pending = <<>> /\ lock # t)

\* A call whose parser raised ParseError, returned.
C2_Witness ==
  /\ th[Caller].pc = "RolledBack"
  /\ th[Caller].result.error_type = "ParseError"
  /\ th[Caller].import_type = "player_stats"
  /\ ~th[Caller].touched

\* The coordinator states a call may pass from and to; a terminal state is
\* left only by the next call.
C3_Transitions ==
  {<<"Idle", "Parsing">>, <<"Parsing", "Importing">>, <<"Parsing", "RolledBack">>,
   <<"Importing", "Committed">>, <<"Importing", "RolledBack">>,
   <<"Committed", "Parsing">>, <<"RolledBack", "Parsing">>}

\* A call that has returned: the session is closed and holds nothing, no
\* transaction is open, the result tells the terminal state, and a call with
\* the payload, the tag and the committed store of a remembered earlier call
\* has that call's outcome.
C3_Returned ==
  LET c == th[Caller] IN
    /\ c.pc \in {"Idle", "Parsing", "Importing", "Committed", "RolledBack"}
    /\ c.pc \in {"Parsing", "Importing"} => c.open
    /\ c.pc \in Terminal =>
         /\ ~c.open /\ c.at = "" /\ c.pending = <<>> /\ lock # Caller
         /\ c.result.success <=> c.pc = "Committed"
         /\ c.result.success => c.result.error_type = ""
         /\ ~c.result.success => c.result.error_type # ""
         /\ (c.memo.valid /\ c.memo.raw_text = c.raw_text
               /\ c.memo.given_type = c.given_type /\ c.memo.pre = c.pre)
              => (c.memo.result = c.result /\ c.memo.results = c.results
                    /\ c.memo.post = db)

\* A step changes the coordinator state along the state machine only, and
\* once a call is in a terminal state nothing happens but the start of the
\* next call, which leaves the store alone.
C3_Step ==
  /\ th'[Caller].pc # th[Caller].pc
       => <<th[Caller].pc, th'[Caller].pc>> \in C3_Transitions
  /\ (th[Caller].pc \in Terminal /\ vars' # vars)
       => (th'[Caller].pc = "Parsing" /\ ncalls' = ncalls + 1 /\ db' = db)

\* C3: every import_data call goes Idle -> Parsing -> Importing ->
\* (Committed | RolledBack); it terminates in exactly one terminal state on
\* every path, takes no step after it, has closed its session when it
\* returns, and its outcome depends on the payload, the tag and the committed
\* store only.
C3_CallStateMachine ==
  /\ []C3_Returned
  /\ [][C3_Step]_vars
  /\ (th[Caller].pc \in {"Parsing", "Importing"}) ~> (th[Caller].pc \in Terminal)

\* A committed call that repeats a remembered committed call: same payload,
\* same tag, same committed store at its start.
C3_Witness ==
  LET c == th[Caller] IN
    /\ c.pc = "Committed"
    /\ c.memo.valid /\ c.memo.result.success
    /\ c.memo.raw_text = c.raw_text /\ c.memo.given_type = c.given_type
    /\ c.memo.pre = c.pre
    /\ c.pre # EmptyStore

\* The player ids and the per-game rows of a player-stats document.
DocPlayerIds(p) == { l[2] : l \in Range(TextLines(p)) }
DocGameRows(p) ==
  { k \in 1..Len(TextLines(p)) : TextLines(p)[k][3] \notin {"XP", "Recent games"} }

\* The store holds the player d of a parsed document with the attributes of
\* d, and for every game d names a stat with the values of the last row of d
\* for that game.
StoredAsParsed(store, d) ==
  \E pl \in store.players :
    /\ pl = PlayerRow(pl.id, d)
    /\ \A q \in store.players : q.bga_player_id = d.bga_player_id => q = pl
    /\ \A k \in 1..Len(d.game_stats) :
         LET gs == d.game_stats[k]
             last == \A m \in (k + 1)..Len(d.game_stats) :
                       d.game_stats[m].game_name # gs.game_name
         IN \E g \in store.games, x \in store.stats :
              /\ g.name = gs.game_name
              /\ x.player_id = pl.id /\ x.game_id = g.id
              /\ last => (x.elo = gs.elo /\ x.rank = gs.rank
                            /\ x.played = gs.played /\ x.won = gs.won)

\* C4: the import of a player-stats document D right after a committed import
\* of D commits, creates no player, game or stat, reports as many players
\* updated as D has players and as many stats updated as D has per-game rows,
\* leaves the store as the first import left it, and the store holds the
\* values of D.
C4_ReimportIsIdempotent ==
  LET c == th[Caller] IN
    (c.pc \in Terminal /\ c.import_type = "player_stats" /\ c.prev = c.raw_text)
      => /\ c.pc = "Committed"
         /\ c.results.players_created = 0
         /\ c.results.games_created = 0
         /\ c.results.game_stats_created = 0
         /\ c.results.players_updated = Cardinality(DocPlayerIds(c.raw_text))
         /\ c.results.game_stats_updated = Cardinality(DocGameRows(c.raw_text))
         /\ db = c.pre
         /\ \A k \in 1..Len(c.parsed_data) : StoredAsParsed(db, c.parsed_data[k])

\* The second import of the document of two players and three per-game rows
\* has returned.
C4_Witness ==
  /\ th[Caller].pc = "Committed"
  /\ th[Caller].import_type = "player_stats"
  /\ th[Caller].raw_text = DocPS3
  /\ th[Caller].prev = DocPS3
  /\ th[Caller].results.game_stats_updated = 3

\* No two rows of a table agree on the field key.
UniqueOn(rows, key) == \A a, b \in rows : a[key] = b[key] => a = b

\* C5: in every committed store, whatever the sequence or interleaving of
\* import_data calls, no two players share a bga_player_id, no two games a
\* bga_game_id, no two matches a bga_table_id and no two tournaments a
\* bga_tournament_id.
C5_BusinessKeysUnique ==
  /\ UniqueOn(db.players, "bga_player_id")
  /\ UniqueOn(db.games, "bga_game_id")
  /\ UniqueOn(db.matches, "bga_table_id")
  /\ UniqueOn(db.tournaments, "bga_tournament_id")

\* Two calls that ran at the same time with the same game list: one
\* committed its games, the other met the unique constraint.
C5_Witness ==
  /\ \E t, u \in Threads :
       /\ th[t].pc = "Committed" /\ th[u].pc = "RolledBack"
       /\ th[t].raw_text = DocGL1 /\ th[u].raw_text = DocGL1
       /\ th[u].pre = EmptyStore /\ th[t].pre = EmptyStore
       /\ th[u].result.error_type = "ImportError"
       /\ th[u].results.games_created = 2
  /\ Cardinality(db.games) = 2

\* The game names of the per-game rows of a player-stats document, and those
\* of them no game of a store has.
DocGameNames(p) == { TextLines(p)[k][3] : k \in DocGameRows(p) }
AbsentNames(p, store) == { n \in DocGameNames(p) : \A g \in store.games : g.name # n }

\* The negative bga_game_ids of a store, and the id placeholders start below.
NegativeIds(store) == { g.bga_game_id : g \in { x \in store.games : x.bga_game_id < 0 } }
Floor(store) == IF NegativeIds(store) = {} THEN 0 ELSE Min(NegativeIds(store))

\* A committed player-stats import that named N games absent from the store
\* has created N games, one per absent name, with the ids Floor - 1 down to
\* Floor - N handed out in the order of creation, each below every negative id
\* the store held before.
C6_Allocated ==
  LET c == th[Caller]
      new == db.games \ c.pre.games
      absent == AbsentNames(c.raw_text, c.pre)
      N == Cardinality(absent)
  IN (c.pc = "Committed" /\ c.import_type = "player_stats")
       => /\ Cardinality(new) = N
          /\ c.results.games_created = N
          /\ { g.name : g \in new } = absent
          /\ { g.bga_game_id : g \in new } = { Floor(c.pre) - k : k \in 1..N }
          /\ \A k \in 1..N : ById(new)[k].bga_game_id = Floor(c.pre) - k
          /\ \A g \in new : g.status = "unknown" /\ ~g.premium
          /\ \A g \in new, m \in NegativeIds(c.pre) : g.bga_game_id < m

\* No committed store loses a game id an earlier one held: the ids handed out
\* so far all stay in the store the next allocation reads.
C6_IdsKept ==
  { g.bga_game_id : g \in db.games } \subseteq { g.bga_game_id : g \in db'.games }

\* C6: one player-stats import naming N distinct games absent from the store
\* creates exactly N games with N distinct negative ids, the first the
\* store's smallest negative id minus 1 (or -1), each next one 1 less; over
\* any sequence of imports a new placeholder id is below every placeholder id
\* handed out before, so none is reused.
C6_PlaceholderAllocation == []C6_Allocated /\ [][C6_IdsKept]_vars

\* A committed import that created two placeholders on a store that held a
\* negative id and a positive one.
C6_Witness ==
  /\ th[Caller].pc = "Committed"
  /\ th[Caller].import_type = "player_stats"
  /\ th[Caller].results.games_created = 2
  /\ NegativeIds(th[Caller].pre) # {}
  /\ \E g \in th[Caller].pre.games : g.bga_game_id > 0

\* C7: a per-game row of a player-stats import that names a game the store
\* holds under that name reuses the game: no game is created for the row,
\* games_created counts the absent names only, no placeholder id is used up,
\* and every game the store held is there unchanged.
C7_ExistingGameReused ==
  LET c == th[Caller]
      absent == AbsentNames(c.raw_text, c.pre)
  IN (c.pc = "Committed" /\ c.import_type = "player_stats")
       => /\ \A n \in DocGameNames(c.raw_text) \ absent :
               { g \in db.games : g.name = n } = { g \in c.pre.games : g.name = n }
          /\ c.pre.games \subseteq db.games
          /\ c.results.games_created = Cardinality(absent)
          /\ Floor(db) = IF absent = {} THEN Floor(c.pre)
                         ELSE Floor(c.pre) - Cardinality(absent)
          /\ \A k \in DocGameRows(c.raw_text) :
               \E g \in db.games, x \in db.stats :
                 g.name = TextLines(c.raw_text)[k][3] /\ x.game_id = g.id

\* A committed import with a row for a game the store held under an
\* authoritative id and a row for a game it held as a placeholder.
C7_Witness ==
  /\ th[Caller].pc = "Committed"
  /\ th[Caller].import_type = "player_stats"
  /\ \E n \in DocGameNames(th[Caller].raw_text), g \in th[Caller].pre.games :
       g.name = n /\ g.bga_game_id > 0
  /\ \E n \in DocGameNames(th[Caller].raw_text), g \in th[Caller].pre.games :
       g.name = n /\ g.bga_game_id < 0
  /\ th[Caller].results.games_created = 0

\* The stored moves of a match in insertion order, without their keys.
StoredMoves(store, match_id) ==
  LET s == ById({ r \in store.moves : r.match_id = match_id }) IN
    [k \in 1..Len(s) |->
       [move_no |-> s[k].move_no, datetime_local |-> s[k].datetime_local,
        datetime_excel |-> s[k].datetime_excel, player_name |-> s[k].player_name,
        remaining_time |-> s[k].remaining_time]]

\* C8: after a committed move-stats import of a document with k rows for
\* table T, the moves stored for the match of T are the k moves of the
\* document in document order, whatever was stored before; moves_created is
\* k, and matches_created is 1 if T was absent, else matches_updated is 1.
C8_MovesReplaced ==
  LET c == th[Caller]
      d == c.parsed_data[1]
      k == Len(TextLines(c.raw_text))
      was == \E m \in c.pre.matches : m.bga_table_id = d.table_id
  IN (c.pc = "Committed" /\ c.import_type = "move_stats")
       => /\ Len(d.moves) = k
          /\ \E m \in db.matches :
               /\ m.bga_table_id = d.table_id
               /\ \A q \in db.matches : q.bga_table_id = d.table_id => q = m
               /\ StoredMoves(db, m.id) = d.moves
          /\ c.results.moves_created = k
          /\ c.results.matches_created = (IF was THEN 0 ELSE 1)
          /\ c.results.matches_updated = (IF was THEN 1 ELSE 0)
          /\ \A m \in c.pre.matches : m.bga_table_id # d.table_id =>
               StoredMoves(db, m.id) = StoredMoves(c.pre, m.id)

\* The re-import of table 50 with two of its three moves, in another order.
C8_Witness ==
  /\ th[Caller].pc = "Committed"
  /\ th[Caller].raw_text = DocMS2
  /\ th[Caller].import_type = "move_stats"
  /\ \E m \in th[Caller].pre.matches :
       m.bga_table_id = 50 /\ Len(StoredMoves(th[Caller].pre, m.id)) = 3
  /\ th[Caller].results.matches_updated = 1

\* The players stored for a tournament match, and those a parsed match lists.
StoredPlayers(store, tournament_match_id) ==
  { [name |-> r.player_name, remaining_time_seconds |-> r.remaining_time_seconds,
     points |-> r.points] :
      r \in { x \in store.tmplayers : x.tournament_match_id = tournament_match_id } }
ListedPlayers(m) == Range(m.players)

\* C9: after a committed tournament-stats import, the stored matches of every
\* tournament of the document are the match rows of the document, and each
\* stored match has exactly the players the document lists for it, with their
\* remaining time and points.
C9_TournamentChildrenReplaced ==
  LET c == th[Caller] IN
    (c.pc = "Committed" /\ c.import_type = "tournament_stats")
      => \A i \in 1..Len(c.parsed_data) :
           LET d == c.parsed_data[i] IN
             \E tr \in db.tournaments :
               /\ tr.bga_tournament_id = d.tournament_id
               /\ LET stored == ById({ m \in db.tmatches : m.tournament_id = tr.id }) IN
                    /\ Len(stored) = Len(d.matches)
                    /\ \A j \in 1..Len(stored) :
                         /\ stored[j].bga_table_id = d.matches[j].table_id
                         /\ StoredPlayers(db, stored[j].id) = ListedPlayers(d.matches[j])
                         /\ Cardinality({ x \in db.tmplayers :
                                            x.tournament_match_id = stored[j].id })
                              = Len(d.matches[j].players)

\* C10: in every committed store every MatchMove refers to a stored Match,
\* every TournamentMatch to a stored Tournament and every
\* TournamentMatchPlayer to a stored TournamentMatch (so the players of the
\* deleted matches of a re-imported tournament are gone with them).
C10_ChildrenHaveOwners ==
  /\ \A r \in db.moves : \E m \in db.matches : m.id = r.match_id
  /\ \A r \in db.tmatches : \E x \in db.tournaments : x.id = r.tournament_id
  /\ \A r \in db.tmplayers : \E m \in db.tmatches : m.id = r.tournament_match_id

\* The records of a parsed game list that are the first of their platform id
\* in the document and whose id the store did not hold.
FirstOfNewId(store, records) ==
  { k \in 1..Len(records) :
      /\ GamesWithId(store.games, records[k].bga_game_id) = {}
      /\ \A m \in 1..(k - 1) : records[m].bga_game_id # records[k].bga_game_id }

\* C11: import_game_list upserts the parsed records in document order by
\* platform game id: a record whose id is absent from the store and from the
\* records before it in the document creates a Game, any other record
\* overwrites name, display name, status and premium of the Game of its id;
\* games_created + games_updated is the number of records, the import commits
\* and the store then holds one Game per id of the document, with the
\* attributes of the last record of that id.
C11_GameListUpserts ==
  LET c == th[Caller]
      new == FirstOfNewId(c.pre, c.parsed_data)
  IN /\ (c.import_type = "game_list" /\ c.pc = "Importing" /\ c.at = "commit")
          => /\ c.results.games_created = Cardinality(new)
             /\ c.results.games_updated = Len(c.parsed_data) - Cardinality(new)
     /\ (c.import_type = "game_list" /\ c.pc \in Terminal /\ c.parsed_data # <<>>)
          => /\ c.pc = "Committed"
             /\ \A k \in 1..Len(c.parsed_data) :
                  LET d == c.parsed_data[k]
                      last == \A m \in (k + 1)..Len(c.parsed_data) :
                                c.parsed_data[m].bga_game_id # d.bga_game_id
                  IN \E g \in db.games :
                       /\ g.bga_game_id = d.bga_game_id
                       /\ \A q \in db.games : q.bga_game_id = d.bga_game_id => q = g
                       /\ last => (g.name = d.name /\ g.display_name = d.display_name
                                     /\ g.status = d.status /\ g.premium = d.premium)

\* The rules of the detector, read off the text: both markers as fields
\* between two TABs; a semicolon and no TAB; a row with a third field "0" or
\* "1" and at least n fields, in a text with an empty field between two TABs;
\* the first line that is not empty has five fields, digits, and "0" or "1".
MarkerRule(p) ==
  /\ p.sep = TAB
  /\ \E n \in 1..Len(p.lines) : \E k \in 2..(Len(p.lines[n]) - 1) : p.lines[n][k] = "XP"
  /\ \E n \in 1..Len(p.lines) :
       \E k \in 2..(Len(p.lines[n]) - 1) : p.lines[n][k] = "Recent games"
SemicolonRule(p) == p.sep = SEMI /\ \E n \in 1..Len(p.lines) : Len(p.lines[n]) > 1
FlagRowRule(p, n) ==
  /\ p.sep = TAB
  /\ \E m \in 1..Len(p.lines) : \E k \in 2..(Len(p.lines[m]) - 1) : p.lines[m][k] = ""
  /\ \E m \in 1..Len(p.lines) : Len(p.lines[m]) >= n /\ p.lines[m][3] \in {"0", "1"}
FiveFieldRule(p) ==
  /\ p.sep = TAB
  /\ \E n \in 1..Len(p.lines) :
       /\ \A m \in 1..(n - 1) : \A k \in 1..Len(p.lines[m]) : p.lines[m][k] = ""
       /\ \E k \in 1..Len(p.lines[n]) : p.lines[n][k] # ""
       /\ Len(p.lines[n]) = 5
       /\ p.lines[n][1] \in {"0", "1", "2", "3", "5", "6", "7", "8", "9", "100"}
       /\ p.lines[n][5] \in {"0", "1"}
WhiteSpaceOnly(p) ==
  \A n \in 1..Len(p.lines) : \A k \in 1..Len(p.lines[n]) : p.lines[n][k] = ""

\* The call has been given no tag and its detection is done.
Classified(c) == c.given_type = "" /\ c.pc \notin {"Idle", "Parsing"}

\* C12: detect_import_type gives every text one of the five tags, the tag of
\* the first rule that holds in the order player_stats (both markers),
\* move_stats (semicolon, no TAB), tournament_stats, game_list (five fields
\* on the first non-empty line, the first numeric, the fifth 0 or 1), else
\* unknown: a text that satisfies several rules gets the tag of the earliest,
\* an empty or white-space text gets unknown, tournament_stats is given to
\* no text without a flag row, and detection alone changes nothing.
C12_FirstRuleWins ==
  LET c == th[Caller]
      p == c.raw_text
  IN Classified(c) =>
       /\ c.import_type \in FormatTags \cup {"unknown"}
       /\ WhiteSpaceOnly(p) => c.import_type = "unknown"
       /\ MarkerRule(p) => c.import_type = "player_stats"
       /\ (~MarkerRule(p) /\ SemicolonRule(p)) => c.import_type = "move_stats"
       /\ (~MarkerRule(p) /\ ~SemicolonRule(p) /\ FlagRowRule(p, 11))
            => c.import_type = "tournament_stats"
       /\ (~MarkerRule(p) /\ ~SemicolonRule(p) /\ ~FlagRowRule(p, 10))
            => c.import_type = (IF FiveFieldRule(p) THEN "game_list" ELSE "unknown")
       /\ c.import_type = "player_stats" => MarkerRule(p)
       /\ c.import_type = "move_stats" => SemicolonRule(p)
       /\ c.import_type = "tournament_stats" => FlagRowRule(p, 10)
       /\ c.import_type = "game_list" => FiveFieldRule(p)
       /\ ~c.touched => (db = c.pre /\ work = c.pre /\ lock = 0)

\* Detection is done on a text that satisfies the tournament rule and the
\* game-list rule, and on one that satisfies the marker rule and the
\* game-list rule.
C12_Witness ==
  /\ Classified(th[Caller])
  /\ th[Caller].raw_text = DocGameThenMatch
  /\ FlagRowRule(DocGameThenMatch, 11) /\ FiveFieldRule(DocGameThenMatch)
  /\ MarkerRule(DocMarkers5) /\ FiveFieldRule(DocMarkers5)
  /\ th[Caller].import_type = "tournament_stats"
  /\ \E g \in db.games : g.name = "Chess"

\* C13: a text matched by neither rule 1 nor rule 2 that holds an empty field
\* between two TABs and a row of at least 10 fields whose third field is "0"
\* or "1" is classified tournament_stats; so is the tournament document of
\* an 11-field summary row and a match row of two players (10 fields).
C13_FlagRowOfTenFields ==
  LET c == th[Caller]
      p == c.raw_text
  IN (Classified(c) /\ ~MarkerRule(p) /\ ~SemicolonRule(p) /\ FlagRowRule(p, 10))
       => c.import_type = "tournament_stats"

\* The call has no format to work with: its tag is none of the four and not
\* missing, or it is missing and the detector answers unknown.
NoFormat(c) ==
  \/ c.given_type \notin FormatTags \cup {""}
  \/ c.given_type = "" /\ Detected(c.raw_text) = "unknown"

\* C14: when no tag is given and detection yields unknown, or when the given
\* tag is not one of the four format tags, import_data returns success =
\* false with error_type UnsupportedTypeError; no parser has run (nothing is
\* parsed, no exception was raised) and no entity is read or written.
C14_UnsupportedType ==
  LET c == th[Caller] IN
    (c.pc \notin {"Idle", "Parsing"} /\ NoFormat(c))
      => /\ c.pc = "RolledBack"
         /\ c.result.success = FALSE
         /\ c.result.error_type = "UnsupportedTypeError"
         /\ c.parsed_data = <<>> /\ c.err = "" /\ c.msg = <<>>
         /\ ~c.touched /\ ~c.open
         /\ db = c.pre /\ work = c.pre /\ lock = 0
         /\ c.results = ZeroResults

\* A game list under a tag that is no format, on a store that holds rows.
C14_Witness ==
  /\ th[Caller].pc = "RolledBack"
  /\ th[Caller].given_type = "unsupported_type"
  /\ th[Caller].raw_text = DocGL1
  /\ th[Caller].result.error_type = "UnsupportedTypeError"
  /\ th[Caller].pre.games # {}

\* C15: import_data never raises: every call that has ended has returned a
\* result with a success flag, and an exception has ended it only through a
\* failure result.  A failure result carries a message and an error_type
\* among ValidationError, ParseError, ImportError, UnsupportedTypeError: the
\* ValidationError and the ParseError of a parser keep their name and text,
\* any other exception is reported as ImportError with its own message after
\* the words "Import failed: ".
C15_StructuredFailure ==
  LET c == th[Caller] IN
    c.pc \in Terminal =>
      /\ c.result.success = (c.pc = "Committed")
      /\ c.result.success => (c.err = "" /\ c.result.error_type = "")
      /\ c.err # "" => ~c.result.success
      /\ ~c.result.success =>
           /\ c.result.error_type \in
                {"ValidationError", "ParseError", "ImportError", "UnsupportedTypeError"}
           /\ c.result.error.msg # <<>>
           /\ c.result.error_type = "UnsupportedTypeError" <=> c.err = ""
           /\ c.err \in {"ValidationError", "ParseError"} =>
                /\ c.result.error_type = c.err
                /\ c.result.error = [prefix |-> "", line |-> c.line, msg |-> c.msg]
           /\ c.err \notin {"", "ValidationError", "ParseError"} =>
                /\ c.result.error_type = "ImportError"
                /\ c.result.error.prefix = "Import failed: "
                /\ c.result.error.msg = c.msg

\* A call the commit of which the store refused: the IntegrityError comes
\* back as an ImportError with the text of the exception.
C15_Witness ==
  /\ th[Caller].pc = "RolledBack"
  /\ th[Caller].err = "IntegrityError"
  /\ th[Caller].import_type = "game_list"
  /\ th[Caller].result.error_type = "ImportError"
  /\ th[Caller].result.error.msg = <<"UNIQUE constraint failed">>

\* A line of white space only, and a document without such lines.
WhiteLine(l) == \A k \in 1..Len(l) : l[k] = ""
RECURSIVE TextOnly(_)
TextOnly(lines) ==
  IF lines = <<>> THEN <<>>
  ELSE IF WhiteLine(Head(lines)) THEN TextOnly(Tail(lines))
  ELSE <<Head(lines)>> \o TextOnly(Tail(lines))
NoBlank(p) == [sep |-> p.sep, lines |-> TextOnly(p.lines)]

\* The parser of format type has run on the text of the call.
Parsed(c, type) ==
  /\ c.pc \notin {"Idle", "Parsing"}
  /\ c.import_type = type
  /\ c.err \in {"", "ValidationError", "ParseError"}

\* C16: each of the four parsers, given an empty text or a text of white
\* space only, fails with the ValidationError "Input text is empty", raised
\* before any row is looked at; inside a text with rows it skips the blank
\* lines: what it returns, or the error it raises, is what it returns or
\* raises for the same text without its blank lines, and its records are as
\* many as the lines that hold text.
C16_BlankInput ==
  LET c == th[Caller]
      p == c.raw_text
  IN \A type \in FormatTags :
       Parsed(c, type) =>
         /\ WhiteSpaceOnly(p) =>
              /\ c.err = "ValidationError" /\ c.msg = <<"Input text is empty">>
              /\ c.line = 0 /\ c.parsed_data = <<>>
         /\ LET q == ParserOf(type, NoBlank(p)) IN
              /\ q.ok = (c.err = "")
              /\ q.data = c.parsed_data
              /\ q.err = c.err /\ q.msg = c.msg
         /\ (c.err = "" /\ type = "game_list")
              => Len(c.parsed_data) = Len(TextOnly(p.lines))
         /\ (c.err = "" /\ type = "move_stats")
              => Len(c.parsed_data[1].moves) = Len(TextOnly(p.lines))

\* A game list with empty lines around and between its two rows, and a line
\* of TABs, has been parsed to two records and stored.
C16_Witness ==
  /\ th[Caller].pc = "Committed"
  /\ th[Caller].raw_text = DocGLBlank
  /\ Len(DocGLBlank.lines) = 5
  /\ Len(th[Caller].parsed_data) = 2
  /\ \E g \in db.games : g.bga_game_id = 6

\* A line of a game list that holds text and is no game row: not exactly 5
\* fields, an id that is no integer, a status that is none of the three or a
\* premium flag that is neither "0" nor "1".
BadGameLine(l) ==
  /\ ~WhiteLine(l)
  /\ \/ Len(l) # 5
     \/ l[1] \notin NumStr
     \/ l[4] \notin {"alpha", "beta", "published"}
     \/ l[5] \notin {"0", "1"}

\* C17: parse_game_list is all-or-nothing: it returns records (one per line
\* that holds text) only if every such line has exactly 5 fields, an integer
\* id, a status among alpha, beta, published and a premium flag "0" or "1";
\* otherwise it raises a ParseError that names the first line of the text
\* violating one of these, and returns no record, whatever lines came before.
C17_GameListAllOrNothing ==
  LET c == th[Caller]
      lines == c.raw_text.lines
      bad == { n \in 1..Len(lines) : BadGameLine(lines[n]) }
  IN (Parsed(c, "game_list") /\ ~WhiteSpaceOnly(c.raw_text) /\ c.raw_text.sep = TAB)
       => IF bad = {}
            THEN c.err = "" /\ Len(c.parsed_data) = Len(TextOnly(lines))
            ELSE /\ c.err = "ParseError"
                 /\ c.parsed_data = <<>>
                 /\ c.line = Min(bad)

\* The lines of a player-stats document that are the marker rows of kind
\* for player id.
MarkerRows(p, id, kind) ==
  { n \in 1..Len(p.lines) :
      Len(p.lines[n]) >= 3 /\ p.lines[n][2] = id /\ p.lines[n][3] = kind }

\* The player ids of the document with other than one XP row or other than
\* one Recent games row.
Incomplete(p) ==
  { id \in DocPlayerIds(p) :
      \/ Cardinality(MarkerRows(p, id, "XP")) # 1
      \/ Cardinality(MarkerRows(p, id, "Recent games")) # 1 }

\* C18: parse_player_stats succeeds only if every player id of the document
\* has exactly one XP row and exactly one Recent games row: a document of
\* well-formed rows in which a player has none of either, or two XP rows or
\* two Recent games rows, fails with a ValidationError that names the name
\* and the id of such a player.
C18_ExactlyOneMarkerRow ==
  LET c == th[Caller]
      p == c.raw_text
  IN (Parsed(c, "player_stats") /\ c.err # "ParseError" /\ ~WhiteSpaceOnly(p))
       => IF Incomplete(p) = {}
            THEN c.err = ""
            ELSE /\ c.err = "ValidationError"
                 /\ c.parsed_data = <<>>
                 /\ \E id \in Incomplete(p) :
                      /\ c.msg[3] = id
                      /\ \E n \in 1..Len(p.lines) :
                           p.lines[n][2] = id /\ c.msg[2] = p.lines[n][1]

\* The per-game rows of player id in a document, in document order, as the
\* records the rows stand for.
RECURSIVE GameRowsOf(_, _)
GameRowsOf(lines, id) ==
  IF lines = <<>> THEN <<>>
  ELSE LET l == Head(lines) IN
    IF WhiteLine(l) \/ l[2] # id \/ l[3] \in {"XP", "Recent games"}
      THEN GameRowsOf(Tail(lines), id)
      ELSE <<[game_name |-> l[3], elo |-> l[4],
              rank |-> IF l[5] = "" THEN NoneVal ELSE l[5],
              played |-> ToInt(l[6]), won |-> ToInt(l[7])]>>
             \o GameRowsOf(Tail(lines), id)

FirstRow(lines) == TextOnly(lines)[1]

\* A line of a move timeline that holds text and is no move row of the match
\* of the first row: not exactly 7 fields, a table id that is no integer or
\* not that of the first row, another game name, or no player name.
BadMoveLine(first, l) ==
  /\ ~WhiteLine(l)
  /\ \/ Len(l) # 7
     \/ l[1] \notin NumStr
     \/ Len(first) = 7 /\ (l[1] # first[1] \/ l[2] # first[2])
     \/ l[6] = ""

\* The moves a text of move rows stands for, in document order.
MovesOf(lines) ==
  LET rows == TextOnly(lines) IN
    [k \in 1..Len(rows) |->
       [move_no |-> rows[k][3], datetime_local |-> rows[k][4],
        datetime_excel |-> rows[k][5], player_name |-> rows[k][6],
        remaining_time |-> rows[k][7]]]

\* C20: parse_move_stats returns a match only if all rows of the text have
\* exactly 7 fields, the same integer table id, the same game name and a
\* player name (the remaining time may be empty); otherwise it raises a
\* ParseError, and for the first row whose table id or game name differs
\* from that of the first row the error cites both values and the number of
\* the line; on success the moves are the rows in document order.
C20_MoveRowsOfOneMatch ==
  LET c == th[Caller]
      lines == c.raw_text.lines
      first == FirstRow(lines)
      bad == { n \in 1..Len(lines) : BadMoveLine(first, lines[n]) }
  IN (Parsed(c, "move_stats") /\ ~WhiteSpaceOnly(c.raw_text) /\ c.raw_text.sep = SEMI)
       => IF bad = {}
            THEN /\ c.err = ""
                 /\ c.parsed_data[1].table_id = ToInt(first[1])
                 /\ c.parsed_data[1].game_name = first[2]
                 /\ c.parsed_data[1].moves = MovesOf(lines)
            ELSE LET l == lines[Min(bad)] IN
                 /\ c.err = "ParseError"
                 /\ c.parsed_data = <<>>
                 /\ c.line = Min(bad)
                 /\ (Len(l) = 7 /\ l[1] \in NumStr /\ l[1] # first[1])
                      => (c.msg[2] = first[1] /\ c.msg[3] = l[1])
                 /\ (Len(l) = 7 /\ l[1] = first[1] /\ l[2] # first[2])
                      => (c.msg[2] = first[2] /\ c.msg[3] = l[2])

\* The rows of a tournament document: a summary row has 11 columns, a match
\* row at least 4 and not 11.
SummaryLine(l) == ~WhiteLine(l) /\ Len(l) = 11
MatchLine(l) == ~WhiteLine(l) /\ Len(l) >= 4 /\ Len(l) # 11

\* A row whose numbers are numbers.
SoundRow(l) ==
  /\ Len(l) >= 4 /\ l[1] \in NumStr
  /\ SummaryLine(l) => \A k \in 7..11 : l[k] \in NumStr
  /\ MatchLine(l) =>
       /\ l[2] \in NumStr /\ l[4] \in NumStr
       /\ \A k \in 5..Len(l) : (k % 3 # 2) => l[k] \in NumStr

\* Line n is a match row the parser must refuse: no summary row before it
\* declares its tournament, or its player data are no triples.
RefusedMatchLine(lines, n) ==
  /\ MatchLine(lines[n])
  /\ \/ ~\E m \in 1..(n - 1) : SummaryLine(lines[m]) /\ lines[m][1] = lines[n][1]
     \/ (Len(lines[n]) - 4) % 3 # 0

\* The table ids of the match rows of tournament id that follow its last
\* summary row, in document order.
RECURSIVE TablesOf(_, _, _)
TablesOf(lines, id, acc) ==
  IF lines = <<>> THEN acc
  ELSE LET l == Head(lines) IN
    IF SummaryLine(l) /\ l[1] = id THEN TablesOf(Tail(lines), id, <<>>)
    ELSE IF MatchLine(l) /\ l[1] = id THEN TablesOf(Tail(lines), id, Append(acc, ToInt(l[2])))
    ELSE TablesOf(Tail(lines), id, acc)

\* C21: parse_tournament_stats accepts a match row (a row of at least 4 and
\* not 11 columns) only if a summary row earlier in the document declares its
\* tournament id and the columns after the fourth are a multiple of 3 in
\* number; otherwise it raises a ParseError for the line of that row; the
\* accepted match rows of a tournament are appended to it in document order.
C21_MatchRowsNeedSummary ==
  LET c == th[Caller]
      lines == c.raw_text.lines
      bad == { n \in 1..Len(lines) : RefusedMatchLine(lines, n) }
  IN (Parsed(c, "tournament_stats") /\ ~WhiteSpaceOnly(c.raw_text) /\ c.raw_text.sep = TAB)
       => /\ c.err = "" =>
               /\ bad = {}
               /\ \A k \in 1..Len(c.parsed_data) :
                    LET d == c.parsed_data[k] IN
                      [j \in 1..Len(d.matches) |-> d.matches[j].table_id]
                        = TablesOf(lines, Str(d.tournament_id), <<>>)
          /\ (bad # {} /\ \A m \in 1..(Min(bad) - 1) :
                            WhiteLine(lines[m]) \/ SoundRow(lines[m]))
               => /\ c.err = "ParseError"
                  /\ c.parsed_data = <<>>
                  /\ c.line = Min(bad)

\* The parser of a format raises a ParseError on the first n lines of a text.
RaisesWithin(type, p, n) ==
  LET q == ParserOf(type, [sep |-> p.sep, lines |-> SubSeq(p.lines, 1, n)]) IN
    ~q.ok /\ q.err = "ParseError"

\* The offending line of a text a parser refuses: the first line with which
\* the text up to it is refused.
Offending(type, p) ==
  Min({ n \in 1..Len(p.lines) : RaisesWithin(type, p, n) })

\* C25: the line number a ParseError of any of the four parsers cites is the
\* 1-based position of the offending line in the payload, for every payload,
\* also one with blank lines before or between its rows.
C25_LineNumberOfPayload ==
  LET c == th[Caller] IN
    \A type \in FormatTags :
      (Parsed(c, type) /\ c.err = "ParseError")
        => c.line = Offending(type, c.raw_text)

\* The last summary row of tournament id in a document.
LastSummary(lines, id) ==
  lines[Max({ n \in 1..Len(lines) : SummaryLine(lines[n]) /\ lines[n][1] = id })]

\* C29: in parse_tournament_stats a second summary row for a tournament id
\* already declared replaces the first: the result has one tournament per
\* distinct id, with the attributes of the last summary row of the id and
\* only the match rows that follow that row; the match rows before it are
\* dropped without error.
C29_LastSummaryWins ==
  LET c == th[Caller]
      lines == c.raw_text.lines
      ids == { lines[n][1] : n \in { m \in 1..Len(lines) : SummaryLine(lines[m]) } }
  IN (Parsed(c, "tournament_stats") /\ c.err = "")
       => /\ Len(c.parsed_data) = Cardinality(ids)
          /\ \A id \in ids :
               \E k \in 1..Len(c.parsed_data) :
                 LET d == c.parsed_data[k]
                     l == LastSummary(lines, id)
                 IN /\ d.tournament_id = ToInt(id)
                    /\ d.name = l[2] /\ d.game_name = l[4]
                    /\ d.start_time = l[5] /\ d.end_time = l[6]
                    /\ d.rounds = ToInt(l[7]) /\ d.round_limit = ToInt(l[8])
                    /\ d.total_matches = ToInt(l[9])
                    /\ d.timeout_matches = ToInt(l[10])
                    /\ d.player_count = ToInt(l[11])
                    /\ [j \in 1..Len(d.matches) |-> d.matches[j].table_id]
                         = TablesOf(lines, id, <<>>)

\* The document that declares tournament 100 twice has been parsed: one
\* tournament, named by the second summary row, with the match after it.
C29_Witness ==
  /\ Parsed(th[Caller], "tournament_stats") /\ th[Caller].err = ""
  /\ th[Caller].raw_text = DocTSTwice
  /\ Len(th[Caller].parsed_data) = 1
  /\ th[Caller].parsed_data[1].name = "Cup 2"
  /\ Len(th[Caller].parsed_data[1].matches) = 1
  /\ th[Caller].parsed_data[1].matches[1].table_id = 3

\* C30: in every committed store state a Game with a negative platform id is
\* a placeholder (status 'unknown', premium false), and every Game with a
\* platform id that is not negative has a status among alpha, beta and
\* published.
C30_NegativeIdsArePlaceholders ==
  \A g \in db.games :
    IF g.bga_game_id < 0
      THEN g.status = "unknown" /\ g.premium = FALSE
      ELSE g.status \in {"alpha", "beta", "published"}

\* The platform ids of the records of a parsed game list.
RecordIds(records) == { records[k].bga_game_id : k \in 1..Len(records) }

\* The placeholder _import_player_stats creates with the keys and name of g.
PlaceholderOf(g) == [PlaceholderGame(g.bga_game_id, g.name) EXCEPT !.id = g.id]

\* C27: import_game_list looks games up by platform id only: a committed
\* game-list import leaves unchanged every Game the store held whose platform
\* id does not occur in the document, and every placeholder, also when a record of the document carries its name; the Game of that
\* record is then another row beside it.
C27_LookupByPlatformId ==
  LET c == th[Caller] IN
    (c.pc = "Committed" /\ c.import_type = "game_list")
      => \A g \in c.pre.games :
           (g.bga_game_id \notin RecordIds(c.parsed_data) \/ g = PlaceholderOf(g))
             => /\ g \in db.games
                /\ \A k \in 1..Len(c.parsed_data) :
                     c.parsed_data[k].name = g.name
                       => \E h \in db.games :
                            /\ h.id # g.id
                            /\ h.bga_game_id = c.parsed_data[k].bga_game_id
                            /\ h.name = g.name

\* Every PlayerGameStat of a store refers to a Player and a Game of the store.
Referential(store) ==
  \A x \in store.stats :
    /\ \E p \in store.players : p.id = x.player_id
    /\ \E g \in store.games : g.id = x.game_id

\* C22: in every committed store state, and in the store a transaction has
\* flushed to, each PlayerGameStat refers to a Player and a Game that exist;
\* a stat the importer has created and not yet flushed refers to a Player and
\* a Game that are flushed already.
C22_StatsHaveOwners ==
  /\ Referential(db)
  /\ Referential(work)
  /\ \A t \in Threads :
       \A k \in 1..Len(th[t].pending) :
         LET o == th[t].pending[k] IN
           (th[t].import_type = "player_stats" /\ o.table = "stats")
             => /\ \E p \in View(t).players : p.id = o.row.player_id
                /\ \E g \in View(t).games : g.id = o.row.game_id

\* A player-stats import has committed the stats of two players, one of them
\* for two games, with a player and games the import created.
C22_Witness ==
  /\ th[Caller].pc = "Committed" /\ th[Caller].import_type = "player_stats"
  /\ th[Caller].results.players_created >= 1
  /\ th[Caller].results.games_created >= 1
  /\ Cardinality(db.stats) >= 3
  /\ Cardinality({ x.player_id : x \in db.stats }) >= 2

\* The stats a store holds for the pair a game row of player record d names:
\* the player of the platform id of d, the first game of the row's name.
PairStats(store, d, gs) ==
  { x \in store.stats :
      /\ \E p \in store.players : p.bga_player_id = d.bga_player_id /\ p.id = x.player_id
      /\ GamesNamed(store.games, gs.game_name) # {}
      /\ x.game_id = First(GamesNamed(store.games, gs.game_name)).id }

\* C23: a committed store holds at most one PlayerGameStat per (player, game)
\* pair; a committed player-stats import that supplies a pair the store held
\* keeps the stat of the pair, under its key, with elo, rank, played and won
\* of the last row the document has for the pair, and adds no second one.
C23_OneStatPerPair ==
  LET c == th[Caller] IN
    /\ \A x, y \in db.stats :
         (x.player_id = y.player_id /\ x.game_id = y.game_id) => x = y
    /\ (c.pc = "Committed" /\ c.import_type = "player_stats")
         => \A i \in 1..Len(c.parsed_data) :
              \A k \in 1..Len(c.parsed_data[i].game_stats) :
                LET d == c.parsed_data[i]
                    gs == d.game_stats[k]
                    last == \A m \in (k + 1)..Len(d.game_stats) :
                              d.game_stats[m].game_name # gs.game_name
                IN \A x \in PairStats(c.pre, d, gs) :
                     /\ PairStats(db, d, gs) = { y \in db.stats : y.id = x.id }
                     /\ last => \A y \in PairStats(db, d, gs) :
                                  /\ y.elo = gs.elo /\ y.rank = gs.rank
                                  /\ y.played = gs.played /\ y.won = gs.won

\* A committed re-import has changed the values of a stat the store held.
C23_Witness ==
  LET c == th[Caller] IN
    /\ c.pc = "Committed" /\ c.import_type = "player_stats"
    /\ c.results.game_stats_updated >= 1
    /\ \E x \in c.pre.stats : \E y \in db.stats :
         /\ y.id = x.id /\ y.player_id = x.player_id /\ y.game_id = x.game_id
         /\ y.elo # x.elo /\ y.played # x.played

\* C24: the summary of a committed player-stats import equals the change of
\* the store: the Player rows grow by players_created, the Game rows by
\* games_created and the PlayerGameStat rows by game_stats_created;
\* players_created + players_updated is the number of distinct player ids of
\* the document and game_stats_created + game_stats_updated the number of
\* its per-game rows.
C24_SummaryIsStoreChange ==
  LET c == th[Caller] IN
    (c.pc = "Committed" /\ c.import_type = "player_stats")
      => /\ Cardinality(db.players) = Cardinality(c.pre.players) + c.results.players_created
         /\ Cardinality(db.games) = Cardinality(c.pre.games) + c.results.games_created
         /\ Cardinality(db.stats) = Cardinality(c.pre.stats) + c.results.game_stats_created
         /\ c.results.players_created + c.results.players_updated
              = Cardinality(DocPlayerIds(c.raw_text))
         /\ c.results.game_stats_created + c.results.game_stats_updated
              = Cardinality(DocGameRows(c.raw_text))

\* A committed player-stats import that updated a player and a stat and
\* created a game and a stat.
C24_Witness ==
  LET c == th[Caller] IN
    /\ c.pc = "Committed" /\ c.import_type = "player_stats"
    /\ c.results.players_updated >= 1 /\ c.results.game_stats_updated >= 1
    /\ c.results.games_created >= 1 /\ c.results.game_stats_created >= 1

\* A player record has two per-game rows with the same game name.
TwoRowsOfOneGame(d) ==
  \E k, m \in 1..Len(d.game_stats) :
    k < m /\ d.game_stats[k].game_name = d.game_stats[m].game_name

\* C28: a player-stats document in which one player has two per-game rows
\* with the same game name never commits: import_data returns error_type
\* 'ImportError' and the store is as it was before the call, with no player,
\* game or stat of the document kept.
C28_TwoRowsOfOneGameFail ==
  LET c == th[Caller] IN
    (/\ c.pc \in Terminal /\ c.import_type = "player_stats"
     /\ \E i \in 1..Len(c.parsed_data) : TwoRowsOfOneGame(c.parsed_data[i]))
      => /\ c.pc = "RolledBack"
         /\ ~c.result.success /\ c.result.error_type = "ImportError"
         /\ db = c.pre

\* The store holds exactly one Player for record d, with the attributes of d.
PlayerAsSupplied(store, d) ==
  \E pl \in store.players :
    /\ pl = PlayerRow(pl.id, d)
    /\ \A q \in store.players : q.bga_player_id = d.bga_player_id => q = pl

\* The store holds exactly one Game for record d, with the attributes of d.
GameAsSupplied(store, d) ==
  \E g \in store.games :
    /\ g.bga_game_id = d.bga_game_id
    /\ g.name = d.name /\ g.display_name = d.display_name
    /\ g.status = d.status /\ g.premium = d.premium
    /\ \A q \in store.games : q.bga_game_id = d.bga_game_id => q = g

\* The step is the commit of a call of thread t with the tag type.
Commits(t, type) ==
  /\ th[t].pc = "Importing" /\ th'[t].pc = "Committed"
  /\ th[t].import_type = type

\* C26: last commit wins.  With two import_data calls at once, a commit
\* leaves, for every player (or game) the committing call supplies, exactly
\* one row of that key, with the attributes that call supplies: no row holds
\* attributes of an earlier commit or a mix of the two calls.
C26_LastCommitWins ==
  [][\A t \in Threads :
       /\ Commits(t, "player_stats")
            => \A i \in 1..Len(th[t].parsed_data) :
                 PlayerAsSupplied(db', th[t].parsed_data[i])
       /\ Commits(t, "game_list")
            => \A i \in 1..Len(th[t].parsed_data) :
                 GameAsSupplied(db', th[t].parsed_data[i])]_vars

====
